---- MODULE Spec2Model ----
(***************************************************************************)
(* A model of @salesforce/metadata-enrichment:                             *)
(*   - EnrichmentHandler.enrich (src/src/enrichment/enrichmentHandler.ts): *)
(*     classification, record building, concurrent POST dispatch and       *)
(*     reconciliation (specification Spec);                                *)
(*   - LwcProcessor.updateMetadataFiles (src/src/files/lwcProcessor.ts):   *)
(*     the configuration-patch phase (specification SpecPatch).            *)
(*                                                                         *)
(* JavaScript values are modelled as follows.  null is Null and undefined  *)
(* is Undefined (records, so that they compare with object values); a      *)
(* missing string is NoName.  A message produced by messages.getMessage    *)
(* is the pair of its key and its arguments (the template texts are not    *)
(* part of the sources); a literal or raw text t is Text(t).  A promise is *)
(* a record with a state field.  A file path is its directory and the      *)
(* dot-separated parts of its base name, the directory being an id.        *)
(***************************************************************************)
EXTENDS Integers, Sequences, FiniteSets, TLC

(***************************************************************************)
(* Bounds of the model.                                                    *)
(***************************************************************************)
MaxComponents == 2

(***************************************************************************)
(* JavaScript null / undefined and the helpers on sequences.               *)
(***************************************************************************)
Null == [null |-> TRUE]
Undefined == [undefined |-> TRUE]
NoName == "<undefined>"
NoStatus == "<undefined>"
\* a string is truthy when it is neither undefined nor empty
truthyName(componentName) == componentName # NoName /\ componentName # ""

Range(s) == {s[i] : i \in 1..Len(s)}

SeqsUpTo(S, n) == UNION {[1..k -> S] : k \in 0..n}

(***************************************************************************)
(* Messages.                                                               *)
(***************************************************************************)
getMessage(key, args) == [key |-> key, args |-> args]
Text(t) == [key |-> "text", args |-> <<t>>]
\* the text of message msg includes the text m
Includes(msg, m) == msg # Null /\ \E i \in 1..Len(msg.args) : msg.args[i] = m

(***************************************************************************)
(* Constants of src/enrichment/constants.                                  *)
(***************************************************************************)
API_ENDPOINT_ENRICHMENT == "/services/data/v66.0/metadata-intelligence/enrichments/on-demand"
LWC_METADATA_TYPE_NAME == "LightningComponentBundle"
ENRICHMENT_REQUEST_ENTITY_ENCODING_HEADER == "X-Chatter-Entity-Encoding"
METADATA_TYPE_GENERIC == "Generic"
METADATA_TYPE_LWC == "Lwc"
MAP_SOURCE_COMPONENT_TYPE_TO_METADATA_TYPE ==
    [t \in {"ApexClass", "Flexipage", "LightningComponentBundle", "Generic"} |->
        CASE t = "ApexClass" -> "ApexClass"
          [] t = "Flexipage" -> "Flexipage"
          [] t = "LightningComponentBundle" -> METADATA_TYPE_LWC
          [] t = "Generic" -> METADATA_TYPE_GENERIC]

NOT_PROCESSED == "NOT_PROCESSED"
SUCCESS == "SUCCESS"
FAIL == "FAIL"
SKIPPED == "SKIPPED"
EnrichmentStatus == {NOT_PROCESSED, SUCCESS, FAIL, SKIPPED}

(***************************************************************************)
(* File paths and mime types.                                              *)
(***************************************************************************)
Path(dir, base) == [dir |-> dir, base |-> base]
basename(filePath) == filePath.base

toLowerCase(s) ==
    CASE s = "JS" -> "js"
      [] s = "Js" -> "js"
      [] s = "HTML" -> "html"
      [] s = "CSS" -> "css"
      [] s = "XML" -> "xml"
      [] s = "SVG" -> "svg"
      [] s = "TXT" -> "txt"
      [] s = "TRUE" -> "true"
      [] s = "True" -> "true"
      [] OTHER -> s

\* path.extname: the last dot-separated part of the base name, "" when the
\* base name has no dot or only a leading one
extname(filePath) ==
    LET b == filePath.base
    IN  IF Len(b) < 2 \/ (Len(b) = 2 /\ b[1] = "") THEN "" ELSE b[Len(b)]

\* the table is keyed by the extension without its leading dot
LWC_MIME_TYPES ==
    [ext \in {"js", "html", "css", "xml", "svg"} |->
        CASE ext = "js" -> "application/javascript"
          [] ext = "html" -> "text/html"
          [] ext = "css" -> "text/css"
          [] ext = "xml" -> "application/xml"
          [] ext = "svg" -> "image/svg+xml"]

\* a variant of getMimeTypeFromExtension that looks the extension up as written
getMimeTypeFromExtension_caseSensitive(filePath) ==
    LET ext == extname(filePath)
    IN  IF ext \in DOMAIN LWC_MIME_TYPES THEN LWC_MIME_TYPES[ext]
        ELSE "application/octet-stream"

getMimeTypeFromExtension(filePath) ==
    LET ext == toLowerCase(extname(filePath))
    IN  IF ext \in DOMAIN LWC_MIME_TYPES THEN LWC_MIME_TYPES[ext]
        ELSE "application/octet-stream"

(***************************************************************************)
(* Source components.  A component is                                      *)
(*   [id, fullName, name, type, content]                                   *)
(* where id is the position of the object in the input list (its object    *)
(* identity), type is Undefined or [name |-> ...], and content is what     *)
(* walkContent yields: for each path whether readFile succeeds on it and   *)
(* the text it returns.                                                    *)
(***************************************************************************)
Identities == {<<NoName, NoName>>, <<NoName, "a">>, <<"b", "a">>}
Types == {Undefined, [name |-> LWC_METADATA_TYPE_NAME], [name |-> "ApexClass"]}
ContentFile(filePath, readable) ==
    [filePath |-> filePath, readable |-> readable, fileContents |-> "text"]
Contents ==
    { <<>>,
      <<ContentFile(Path(0, <<"c", "JS">>), FALSE)>>,
      <<ContentFile(Path(0, <<"c", "JS">>), TRUE)>> }

ComponentShapes ==
    {[fullName |-> idn[1], name |-> idn[2], type |-> t, content |-> c] :
        idn \in Identities, t \in Types, c \in Contents}

WithIds(shapes) ==
    [i \in 1..Len(shapes) |->
        [id |-> i, fullName |-> shapes[i].fullName, name |-> shapes[i].name,
         type |-> shapes[i].type, content |-> shapes[i].content]]

ComponentLists == {WithIds(s) : s \in SeqsUpTo(ComponentShapes, MaxComponents)}

\* component.fullName ?? component.name
componentNameOf(component) ==
    IF component.fullName # NoName THEN component.fullName ELSE component.name

\* a variant of isLwc that takes every typed component for eligible
isLwc_anyType(component) == component.type # Undefined

\* component.type?.name === LWC_METADATA_TYPE_NAME
isLwc(component) ==
    component.type # Undefined /\ component.type.name = LWC_METADATA_TYPE_NAME

(***************************************************************************)
(* FileProcessor.readComponentFile / readComponentFiles.                   *)
(***************************************************************************)
readComponentFile(componentName, file) ==
    IF file.readable
    THEN [componentName |-> componentName, filePath |-> file.filePath,
          fileContents |-> file.fileContents,
          mimeType |-> getMimeTypeFromExtension(file.filePath)]
    ELSE Null

NotNull(x) == x # Null

readComponentFiles(component) ==
    LET componentName == componentNameOf(component)
        fileResults == [i \in 1..Len(component.content) |->
                           readComponentFile(componentName, component.content[i])]
    IN  IF ~truthyName(componentName) THEN <<>>
        ELSE SelectSeq(fileResults, NotNull)

(***************************************************************************)
(* EnrichmentHandler: building the request records.                        *)
(***************************************************************************)
createContentBundleFile(file) ==
    [filename |-> basename(file.filePath), mimeType |-> file.mimeType,
     content |-> file.fileContents, encoding |-> "PlainText"]

\* the base name "__proto__": on a plain object, contentBundleFiles[key] =
\* value with this key calls the __proto__ setter of Object.prototype, which
\* sets the prototype of the object and adds no property
PROTO_KEY == <<"__proto__">>

RECURSIVE contentBundleFiles(_, _)
\* the own properties of the plain object contentBundleFiles after the first
\* n files are assigned by filename, later assignments overwriting earlier
\* ones of the same filename
contentBundleFiles(files, n) ==
    IF n = 0 THEN <<>>
    ELSE LET prev == contentBundleFiles(files, n - 1)
             f == createContentBundleFile(files[n])
         IN  IF f.filename = PROTO_KEY THEN prev
             ELSE [k \in (DOMAIN prev) \cup {f.filename} |->
                      IF k = f.filename THEN f ELSE prev[k]]

createContentBundle(componentName, files) ==
    [resourceName |-> componentName, files |-> contentBundleFiles(files, Len(files))]

createEnrichmentRequestBody(contentBundle) ==
    [contentBundles |-> <<contentBundle>>, metadataType |-> "Generic", maxTokens |-> 250]

\* status is NoStatus and message is Undefined when the caller omits them.  The origin
\* field is auxiliary: the id of the component the record was built from.
createEnrichmentRequestRecord(component, status, message) ==
    LET componentName == componentNameOf(component)
        files == readComponentFiles(component)
        componentType == IF component.type = Undefined THEN Null ELSE component.type
    IN  IF Len(files) = 0
        THEN [componentName |-> componentName, componentType |-> componentType,
              requestBody |-> Null, response |-> Null,
              message |-> getMessage("error.file.read.failed", <<componentName>>),
              status |-> SKIPPED, origin |-> component.id]
        ELSE [componentName |-> componentName, componentType |-> componentType,
              requestBody |->
                  createEnrichmentRequestBody(createContentBundle(componentName, files)),
              response |-> Null,
              message |-> IF message = Undefined THEN Null ELSE message,
              status |-> IF status = NoStatus THEN NOT_PROCESSED ELSE status,
              origin |-> component.id]

\* a variant of recordPromiseValue without the check of the name
recordPromiseValue_noNameCheck(component, status, message) ==
    createEnrichmentRequestRecord(component, status, message)

\* the async callback of createEnrichmentRequestRecords for one component
recordPromiseValue(component, status, message) ==
    IF ~truthyName(componentNameOf(component)) THEN Null
    ELSE createEnrichmentRequestRecord(component, status, message)

(***************************************************************************)
(* Promises.                                                               *)
(***************************************************************************)
Pending == [state |-> "pending"]
Fulfilled(v) == [state |-> "fulfilled", value |-> v]
Rejected(r) == [state |-> "rejected", reason |-> r]
AllSettled(promises) == \A i \in 1..Len(promises) : promises[i] # Pending
FulfilledValue(p) == p.value
Values(promises) == [i \in 1..Len(promises) |-> FulfilledValue(promises[i])]

Settled(phase, index) == [phase |-> phase, index |-> index]
inLwcRecords(s) == s.phase = "lwcRecords"
inNonLwcRecords(s) == s.phase = "nonLwcRecords"
inRequests(s) == s.phase = "requests"
\* the positions of the entries, in their order
indexesOf(entries) == [i \in 1..Len(entries) |-> entries[i].index]

\* a variant of promiseAll that yields the values in the order in which the
\* promises settled
promiseAll_settleOrder(promises, order) ==
    [i \in 1..Len(order) |-> FulfilledValue(promises[order[i]])]

\* Promise.all(promises) of promises that all fulfil, which settled in order:
\* the values in the order of the promises
promiseAll(promises, order) == Values(promises)

\* a variant of promiseAllSettled that yields the results in the order in
\* which the promises settled
promiseAllSettled_settleOrder(promises, order) ==
    [i \in 1..Len(order) |-> promises[order[i]]]

\* Promise.allSettled(promises) of promises which settled in order: the
\* results in the order of the promises
promiseAllSettled(promises, order) == promises

(***************************************************************************)
(* The connection: what requestPost may answer.                            *)
(***************************************************************************)
EnrichmentResult1 == [description |-> "D1", descriptionScore |-> 95]
ResultLists == {<<>>, <<EnrichmentResult1>>}
\* the response object returned for the call-th requestPost call
Responses(call) == {[call |-> call, results |-> rs] : rs \in ResultLists}
ErrorTexts == {"API request failed", "timeout"}
Error(message) == [isError |-> TRUE, message |-> message]
SfError(message) == [isError |-> TRUE, message |-> message]

(***************************************************************************)
(* State of one EnrichmentHandler.enrich call.                             *)
(*   pc                where the call is                                   *)
(*   sourceComponents  the input list                                      *)
(*   lwcComponents, nonLwcComponents   the two partitions                  *)
(*   recordPromises    the promises of the createEnrichmentRequestRecords  *)
(*                     call in progress                                    *)
(*   lwcRecords, nonLwcRecords         the records built                   *)
(*   posts             the requestPost calls made, in call order           *)
(*   answers           what the connection answered to each call           *)
(*   requestPromises   the promises of sendEnrichmentRequest               *)
(*   enrichResult      the list enrich resolves with                       *)
(*   settleOrder       auxiliary: the promises that settled, in the order  *)
(*                     in which they settled, each as the phase it belongs *)
(*                     to and its position among the promises of that      *)
(*                     phase; the record phases are kept until the         *)
(*                     requests are sent                                   *)
(***************************************************************************)
VARIABLES pc, sourceComponents, lwcComponents, nonLwcComponents, recordPromises,
          lwcRecords, nonLwcRecords, posts, answers, requestPromises, enrichResult,
          settleOrder

enrichVars == <<pc, sourceComponents, lwcComponents, nonLwcComponents, recordPromises,
                lwcRecords, nonLwcRecords, posts, answers, requestPromises, enrichResult,
                settleOrder>>

(***************************************************************************)
(* State of one LwcProcessor.updateMetadataFiles call.                     *)
(*   ppc               where the call is                                   *)
(*   bundles           the lightningComponentBundles argument              *)
(*   enrichmentRecords the records argument, mutated in place              *)
(*   disk              the file system: for each path Missing or the text  *)
(*                     of the file and whether it can be written           *)
(*   fileContents      the files read at the start of the call             *)
(*   fileIndex         the position of the for loop in fileContents        *)
(*   pendingWrite      the writeFile call in flight, or Null               *)
(*   writes            the writeFile calls that succeeded, in order        *)
(*   writeCalls        every writeFile call made, in call order: its path, *)
(*                     the position of its file in fileContents and        *)
(*                     whether it has settled                              *)
(*   firstRun          Null, or when updateMetadataFiles is being called a *)
(*                     second time with the same arguments: the disk and   *)
(*                     the records as the first call left them             *)
(***************************************************************************)
VARIABLES ppc, bundles, enrichmentRecords, disk, fileContents, fileIndex,
          pendingWrite, writes, writeCalls, firstRun

patchVars == <<ppc, bundles, enrichmentRecords, disk, fileContents, fileIndex,
               pendingWrite, writes, writeCalls, firstRun>>

(***************************************************************************)
(* State of one EnrichmentMetrics object.                                  *)
(*   metricsMade   FALSE until the object is constructed                   *)
(*   metrics       the object: success, fail, skipped and total            *)
(*   metricsInput  the records createEnrichmentMetrics was called with     *)
(*   addCalls      the add*Component calls made from outside since the     *)
(*                 object was constructed                                  *)
(***************************************************************************)
VARIABLES metricsMade, metrics, metricsInput, addCalls

metricsVars == <<metricsMade, metrics, metricsInput, addCalls>>

(***************************************************************************)
(* State of one EnrichmentRecords object.                                  *)
(*   storeMade   FALSE until the object is constructed                     *)
(*   recordSet   the records, in insertion order                           *)
(*   calls       the number of method calls made on the object             *)
(*   lastCall    the last call made: its method, its arguments and the     *)
(*               recordSet it found                                        *)
(***************************************************************************)
VARIABLES storeMade, recordSet, calls, lastCall

recordsVars == <<storeMade, recordSet, calls, lastCall>>

(***************************************************************************)
(* State of one call of a static function of FileProcessor, LwcProcessor   *)
(* or enrichmentHandler.                                                   *)
(*   called             the function called and its arguments              *)
(*   fileReadPromises   the promises of readComponentFile in progress      *)
(*   settled            the positions of fileReadPromises in the order in  *)
(*                      which they settled                                 *)
(*   returned           what the call returned, threw or resolved with     *)
(***************************************************************************)
VARIABLES called, fileReadPromises, settled, returned

callVars == <<called, fileReadPromises, settled, returned>>

EnrichIdle ==
    /\ pc = "idle"
    /\ sourceComponents = <<>>
    /\ lwcComponents = <<>>
    /\ nonLwcComponents = <<>>
    /\ recordPromises = <<>>
    /\ lwcRecords = <<>>
    /\ nonLwcRecords = <<>>
    /\ posts = <<>>
    /\ answers = <<>>
    /\ requestPromises = <<>>
    /\ enrichResult = <<>>
    /\ settleOrder = <<>>

isNonLwc(component) == ~isLwc(component)

\* the promises createEnrichmentRequestRecords starts for components
startRecordPromises(components) == [i \in 1..Len(components) |-> Pending]

\* enrich, lines 64-80: partition the input and start building the records of
\* the eligible components
Enrich ==
    /\ pc = "idle"
    /\ \E components \in ComponentLists :
          /\ sourceComponents' = components
          /\ lwcComponents' = SelectSeq(components, isLwc)
          /\ nonLwcComponents' = SelectSeq(components, isNonLwc)
          /\ recordPromises' = startRecordPromises(SelectSeq(components, isLwc))
    /\ pc' = "lwcRecords"
    /\ UNCHANGED <<lwcRecords, nonLwcRecords, posts, answers, requestPromises, enrichResult,
                   settleOrder>>
    /\ UNCHANGED <<patchVars, metricsVars, recordsVars, callVars>>

\* the record promise of the k-th eligible component settles
LwcRecordSettles(k) ==
    /\ pc = "lwcRecords"
    /\ k \in 1..Len(recordPromises)
    /\ recordPromises[k] = Pending
    /\ recordPromises' = [recordPromises EXCEPT ![k] =
           Fulfilled(recordPromiseValue(lwcComponents[k], NoStatus, Undefined))]
    /\ settleOrder' = Append(settleOrder, Settled("lwcRecords", k))
    /\ UNCHANGED <<pc, sourceComponents, lwcComponents, nonLwcComponents, lwcRecords,
                   nonLwcRecords, posts, answers, requestPromises, enrichResult>>
    /\ UNCHANGED <<patchVars, metricsVars, recordsVars, callVars>>

\* the requestPost call sendEnrichmentRequest makes for record (line 174)
requestPostCall(record) ==
    [url |-> API_ENDPOINT_ENRICHMENT,
     body |-> IF record.requestBody = Null THEN [empty |-> TRUE] ELSE record.requestBody,
     options |-> Undefined,
     origin |-> record.origin]

hasRequestBody(record) == record.requestBody # Null

\* a variant of recordsToSend that leaves out the records without a request
\* body
recordsToSend_withBody(records) == SelectSeq(records, hasRequestBody)

\* the records sendEnrichmentRequests sends a request for (line 189)
recordsToSend(records) == records

\* a variant of AwaitLwcRecords that sends the requests of the eligible
\* records before the records of the ineligible components are built
AwaitLwcRecords_sendAtOnce ==
    /\ pc = "lwcRecords"
    /\ AllSettled(recordPromises)
    /\ lwcRecords' = SelectSeq(
           promiseAll(recordPromises, indexesOf(SelectSeq(settleOrder, inLwcRecords))),
           NotNull)
    /\ recordPromises' = startRecordPromises(nonLwcComponents)
    /\ posts' = [i \in 1..Len(lwcRecords') |-> requestPostCall(lwcRecords'[i])]
    /\ pc' = "nonLwcRecords"
    /\ UNCHANGED <<sourceComponents, lwcComponents, nonLwcComponents, nonLwcRecords,
                   answers, requestPromises, enrichResult, settleOrder>>
    /\ UNCHANGED <<patchVars, metricsVars, recordsVars, callVars>>

\* lines 134-135 and 80-82: Promise.all of the eligible records resolves, the
\* null results are dropped, and the records of the ineligible components start
AwaitLwcRecords ==
    /\ pc = "lwcRecords"
    /\ AllSettled(recordPromises)
    /\ lwcRecords' = SelectSeq(
           promiseAll(recordPromises, indexesOf(SelectSeq(settleOrder, inLwcRecords))),
           NotNull)
    /\ recordPromises' = startRecordPromises(nonLwcComponents)
    /\ pc' = "nonLwcRecords"
    /\ UNCHANGED <<sourceComponents, lwcComponents, nonLwcComponents, nonLwcRecords,
                   posts, answers, requestPromises, enrichResult, settleOrder>>
    /\ UNCHANGED <<patchVars, metricsVars, recordsVars, callVars>>

\* the record promise of the k-th ineligible component settles
NonLwcRecordSettles(k) ==
    /\ pc = "nonLwcRecords"
    /\ k \in 1..Len(recordPromises)
    /\ recordPromises[k] = Pending
    /\ recordPromises' = [recordPromises EXCEPT ![k] =
           Fulfilled(recordPromiseValue(nonLwcComponents[k], SKIPPED,
                                        getMessage("error.enrich.lwc.only", <<>>)))]
    /\ settleOrder' = Append(settleOrder, Settled("nonLwcRecords", k))
    /\ UNCHANGED <<pc, sourceComponents, lwcComponents, nonLwcComponents, lwcRecords,
                   nonLwcRecords, posts, answers, requestPromises, enrichResult>>
    /\ UNCHANGED <<patchVars, metricsVars, recordsVars, callVars>>

\* lines 134-135, 82-84 and 189-191: Promise.all of the ineligible records
\* resolves and sendEnrichmentRequests starts one sendEnrichmentRequest per
\* record, each of which calls requestPost at once
AwaitNonLwcRecords ==
    /\ pc = "nonLwcRecords"
    /\ AllSettled(recordPromises)
    /\ nonLwcRecords' = SelectSeq(
           promiseAll(recordPromises, indexesOf(SelectSeq(settleOrder, inNonLwcRecords))),
           NotNull)
    /\ recordPromises' = <<>>
    /\ settleOrder' = <<>>
    /\ posts' = [i \in 1..Len(recordsToSend(lwcRecords)) |->
                    requestPostCall(recordsToSend(lwcRecords)[i])]
    /\ answers' = [i \in 1..Len(recordsToSend(lwcRecords)) |-> Pending]
    /\ requestPromises' = [i \in 1..Len(recordsToSend(lwcRecords)) |-> Pending]
    /\ pc' = "requests"
    /\ UNCHANGED <<sourceComponents, lwcComponents, nonLwcComponents, lwcRecords,
                   enrichResult>>
    /\ UNCHANGED <<patchVars, metricsVars, recordsVars, callVars>>

\* a variant of requestFulfilled that drops the response
requestFulfilled_statusOnly(record, response) ==
    [record EXCEPT !.status = SUCCESS]

\* sendEnrichmentRequest, lines 175-179: the value it resolves with
requestFulfilled(record, response) ==
    [record EXCEPT !.response = response, !.status = SUCCESS]

\* sendEnrichmentRequest, lines 180-182: the error it throws
requestRejected(record, error) ==
    SfError(getMessage("error.enrichment.request", <<record.componentName>>))

\* the k-th requestPost resolves with response
PostResolves(k, response) ==
    /\ pc = "requests"
    /\ k \in 1..Len(requestPromises)
    /\ requestPromises[k] = Pending
    /\ answers' = [answers EXCEPT ![k] = Fulfilled(response)]
    /\ requestPromises' = [requestPromises EXCEPT ![k] =
           Fulfilled(requestFulfilled(recordsToSend(lwcRecords)[k], response))]
    /\ settleOrder' = Append(settleOrder, Settled("requests", k))
    /\ UNCHANGED <<pc, sourceComponents, lwcComponents, nonLwcComponents, recordPromises,
                   lwcRecords, nonLwcRecords, posts, enrichResult>>
    /\ UNCHANGED <<patchVars, metricsVars, recordsVars, callVars>>

\* a variant of PostRejects in which the rejected request is sent again
PostRejects_retry(k, m) ==
    /\ pc = "requests"
    /\ k \in 1..Len(requestPromises)
    /\ requestPromises[k] = Pending
    /\ Len(posts) = Len(requestPromises)
    /\ posts' = Append(posts, posts[k])
    /\ UNCHANGED <<pc, sourceComponents, lwcComponents, nonLwcComponents, recordPromises,
                   lwcRecords, nonLwcRecords, answers, requestPromises, enrichResult,
                   settleOrder>>
    /\ UNCHANGED <<patchVars, metricsVars, recordsVars, callVars>>

\* the k-th requestPost rejects with an Error of text m
PostRejects(k, m) ==
    /\ pc = "requests"
    /\ k \in 1..Len(requestPromises)
    /\ requestPromises[k] = Pending
    /\ answers' = [answers EXCEPT ![k] = Rejected(Error(Text(m)))]
    /\ requestPromises' = [requestPromises EXCEPT ![k] =
           Rejected(requestRejected(recordsToSend(lwcRecords)[k], Error(Text(m))))]
    /\ settleOrder' = Append(settleOrder, Settled("requests", k))
    /\ UNCHANGED <<pc, sourceComponents, lwcComponents, nonLwcComponents, recordPromises,
                   lwcRecords, nonLwcRecords, posts, enrichResult>>
    /\ UNCHANGED <<patchVars, metricsVars, recordsVars, callVars>>

\* a variant of reconcile that takes the failed record at the wrong position
reconcile_firstRecord(records, result, index) ==
    IF result.state = "fulfilled" THEN result.value
    ELSE [records[1] EXCEPT !.response = Null,
                            !.message = result.reason.message,
                            !.status = FAIL]

\* sendEnrichmentRequests, lines 193-206: the record for the index-th result
reconcile(records, result, index) ==
    IF result.state = "fulfilled" THEN result.value
    ELSE [records[index] EXCEPT !.response = Null,
                                !.message = result.reason.message,
                                !.status = FAIL]

reconcileAll(records, results) ==
    [index \in 1..Len(results) |-> reconcile(records, results[index], index)]

\* a variant of enrichReturn that puts the ineligible records first
enrichReturn_nonLwcFirst(enrichmentResults, nonLwc) == nonLwc \o enrichmentResults

\* enrich, line 86: the list returned
enrichReturn(enrichmentResults, nonLwc) == enrichmentResults \o nonLwc

\* a variant of AwaitRequests that awaits the requests with Promise.all and
\* so returns no list when a request is rejected
AwaitRequests_all ==
    /\ pc = "requests"
    /\ AllSettled(requestPromises)
    /\ \A k \in 1..Len(requestPromises) : requestPromises[k].state = "fulfilled"
    /\ enrichResult' = enrichReturn(Values(requestPromises), nonLwcRecords)
    /\ pc' = "done"
    /\ UNCHANGED <<sourceComponents, lwcComponents, nonLwcComponents, recordPromises,
                   lwcRecords, nonLwcRecords, posts, answers, requestPromises, settleOrder>>
    /\ UNCHANGED <<patchVars, metricsVars, recordsVars, callVars>>

\* lines 191-206 and 86: Promise.allSettled resolves, the results are
\* reconciled and enrich resolves with the concatenation
AwaitRequests ==
    /\ pc = "requests"
    /\ AllSettled(requestPromises)
    /\ enrichResult' = enrichReturn(
           reconcileAll(recordsToSend(lwcRecords),
                        promiseAllSettled(requestPromises,
                                          indexesOf(SelectSeq(settleOrder, inRequests)))),
           nonLwcRecords)
    /\ pc' = "done"
    /\ UNCHANGED <<sourceComponents, lwcComponents, nonLwcComponents, recordPromises,
                   lwcRecords, nonLwcRecords, posts, answers, requestPromises, settleOrder>>
    /\ UNCHANGED <<patchVars, metricsVars, recordsVars, callVars>>

(***************************************************************************)
(* Configuration files.  The text of a .js-meta.xml file is modelled by    *)
(* what fast-xml-parser makes of it:                                       *)
(*   wellFormed   FALSE when XMLParser.parse throws on the text            *)
(*   buildable    FALSE when XMLBuilder.build throws on the parsed tree    *)
(*   tree         the elements: whether there are top-level elements other *)
(*                than LightningComponentBundle (others), and the          *)
(*                LightningComponentBundle element (Undefined when         *)
(*                absent) with its other children (rest) and its ai        *)
(*                element (Undefined when absent); the texts of the ai     *)
(*                children are NoText when the child is absent             *)
(*   layout       "source" for a text as authored, "built" for the output  *)
(*                of build().trim().replace(/\n{3,}/g, '\n\n')             *)
(***************************************************************************)
NoText == "<undefined>"
Ai(skipUplift, description, score) ==
    [skipUplift |-> skipUplift, description |-> description, score |-> score]
Bundle(rest, ai) == [rest |-> rest, ai |-> ai]
\* a LightningComponentBundle element that holds nothing but a text, which
\* the parser turns into the value of that text instead of an object
TextOnly(text) == [text |-> text]
TextOnlyBundles == {TextOnly(t) : t \in {"", "0", "false", "x"}}
isTextOnly(lcb) == DOMAIN lcb = {"text"}
XmlText(wellFormed, buildable, others, lcb, layout) ==
    [wellFormed |-> wellFormed, buildable |-> buildable,
     tree |-> [others |-> others, LightningComponentBundle |-> lcb],
     layout |-> layout]

PlainConfig == XmlText(TRUE, TRUE, FALSE, Bundle("apiVersion", Undefined), "source")
OptOutConfig(flag) ==
    XmlText(TRUE, TRUE, FALSE, Bundle("apiVersion", Ai(flag, NoText, NoText)), "source")
EnrichedConfig ==
    XmlText(TRUE, TRUE, FALSE, Bundle("apiVersion", Ai("false", "D0", "0.5")), "source")
RootOnlyConfig == XmlText(TRUE, TRUE, TRUE, Undefined, "source")
MalformedConfig == XmlText(FALSE, TRUE, TRUE, Undefined, "source")
UnbuildableConfig == XmlText(TRUE, FALSE, FALSE, Bundle("apiVersion", Undefined), "source")

ConfigTexts ==
    {PlainConfig, OptOutConfig("true"), OptOutConfig("TRUE"), EnrichedConfig,
     RootOnlyConfig, MalformedConfig, UnbuildableConfig}

\* a JavaScript value read from a tag: its type and the text JavaScript
\* prints it with
JsValue(type, text) == [type |-> type, text |-> text]
JsUndefined == JsValue("undefined", "undefined")
JsTrue == JsValue("boolean", "true")

\* fast-xml-parser's parsing of a tag value: true and false become booleans
\* and a text that reads as a number becomes that number
parseTagValue(text) ==
    CASE text = NoText -> JsUndefined
      [] text = "true" -> JsTrue
      [] text = "false" -> JsValue("boolean", "false")
      [] text = "60.0" -> JsValue("number", "60")
      [] text = "60" -> JsValue("number", "60")
      [] text = "0" -> JsValue("number", "0")
      [] OTHER -> JsValue("string", text)

\* JavaScript's !value
falsy(value) ==
    \/ value = JsUndefined
    \/ value = JsValue("boolean", "false")
    \/ value = JsValue("number", "0")
    \/ value = JsValue("string", "")

\* JavaScript's String(value)
String(value) == value.text

\* String(descriptionScore) of a score given in hundredths
scoreString(score) ==
    CASE score = 95 -> "0.95"
      [] score = 90 -> "0.9"
      [] OTHER -> "0.5"

\* XMLBuilder's text of a parsed tag value
builtText(value) == IF value = JsUndefined THEN NoText ELSE String(value)

\* xmlObj.LightningComponentBundle?.ai?.skipUplift of the parsed text
parsedSkipUplift(xmlContent) ==
    LET lcb == xmlContent.tree.LightningComponentBundle
    IN  IF lcb = Undefined THEN JsUndefined
        ELSE IF isTextOnly(lcb) THEN JsUndefined
        ELSE IF lcb.ai = Undefined THEN JsUndefined
        ELSE parseTagValue(lcb.ai.skipUplift)

\* a variant of isSkipUpliftEnabled that compares the flag case-sensitively
isSkipUpliftEnabled_caseSensitive(xmlContent) ==
    IF ~xmlContent.wellFormed THEN FALSE
    ELSE LET skipUplift == parsedSkipUplift(xmlContent)
         IN  skipUplift = JsTrue \/ String(skipUplift) = "true"

\* LwcProcessor.isSkipUpliftEnabled
isSkipUpliftEnabled(xmlContent) ==
    IF ~xmlContent.wellFormed THEN FALSE
    ELSE LET skipUplift == parsedSkipUplift(xmlContent)
         IN  skipUplift = JsTrue \/ toLowerCase(String(skipUplift)) = "true"

\* LwcProcessor.isMetaXmlFile: basename(filePath).endsWith('.js-meta.xml')
isMetaXmlFile(filePath) ==
    LET b == basename(filePath)
    IN  Len(b) >= 3 /\ b[Len(b) - 1] = "js-meta" /\ b[Len(b)] = "xml"

Threw(error) == [threw |-> TRUE, error |-> error]
Returned(value) == [threw |-> FALSE, value |-> value]

\* a variant of updateMetaXml that builds a new LightningComponentBundle
\* element whatever the text holds
updateMetaXml_newBundle(xmlContent, result) ==
    IF ~xmlContent.wellFormed
    THEN Threw(SfError(getMessage("error_parsing_xml", <<"parse error">>)))
    ELSE IF ~xmlContent.buildable
    THEN Threw(SfError(getMessage("error_parsing_xml", <<"build error">>)))
    ELSE Returned(XmlText(TRUE, TRUE, xmlContent.tree.others,
                          Bundle(NoText, Ai("false", result.description,
                                            scoreString(result.descriptionScore))),
                          "built"))

\* a variant of aiElement that writes the opt-out flag as set
aiElement_optOut(result) ==
    Ai("true", result.description, scoreString(result.descriptionScore))

\* lines 122-126: the ai element written
aiElement(result) ==
    Ai("false", result.description, scoreString(result.descriptionScore))

\* LwcProcessor.updateMetaXml: the text returned or the SfError thrown
updateMetaXml(xmlContent, result) ==
    IF ~xmlContent.wellFormed
    THEN Threw(SfError(getMessage("error_parsing_xml", <<"parse error">>)))
    ELSE IF ~xmlContent.buildable
    THEN Threw(SfError(getMessage("error_parsing_xml", <<"build error">>)))
    ELSE LET lcb == xmlContent.tree.LightningComponentBundle
             ai == aiElement(result)
         IN  IF lcb = Undefined
             THEN Returned(XmlText(TRUE, TRUE, xmlContent.tree.others,
                                   Bundle(NoText, ai), "built"))
             ELSE IF isTextOnly(lcb)
             THEN IF falsy(parseTagValue(lcb.text))
                  THEN Returned(XmlText(TRUE, TRUE, xmlContent.tree.others,
                                        Bundle(NoText, ai), "built"))
                  ELSE Threw(SfError(getMessage("error_parsing_xml",
                                                <<"Cannot create property">>)))
             ELSE Returned(XmlText(TRUE, TRUE, xmlContent.tree.others,
                                   Bundle(builtText(parseTagValue(lcb.rest)), ai),
                                   "built"))

(***************************************************************************)
(* The file system.                                                        *)
(***************************************************************************)
Missing == [missing |-> TRUE]
OnDisk(contents, writable) == [contents |-> contents, writable |-> writable]

\* what readFile finds at path
diskFile(d, path) ==
    IF d[path] = Missing
    THEN [filePath |-> path, readable |-> FALSE, fileContents |-> Missing]
    ELSE [filePath |-> path, readable |-> TRUE, fileContents |-> d[path].contents]

\* fs.writeFile: the error it rejects with, or Null
writeFileError(d, path) ==
    IF d[path] # Missing /\ ~d[path].writable THEN Error(Text("EACCES")) ELSE Null

(***************************************************************************)
(* The inputs of updateMetadataFiles.  The i-th bundle has its own          *)
(* directory i; its xml is Undefined, its .js file or its .js-meta.xml     *)
(* file.  Record names are unique.                                         *)
(***************************************************************************)
MaxBundles == 2

MetaPath(i) == Path(i, <<"c", "js-meta", "xml">>)
JsPath(i) == Path(i, <<"c", "js">>)

FileStates ==
    {Missing, OnDisk(PlainConfig, FALSE)} \cup {OnDisk(t, TRUE) : t \in ConfigTexts}

BundleShapes ==
    {[fullName |-> NoName, name |-> NoName, xml |-> "meta", file |-> OnDisk(PlainConfig, TRUE)]}
    \cup {[fullName |-> n, name |-> "z", xml |-> "none", file |-> Missing] : n \in {"a", "b"}}
    \cup {[fullName |-> n, name |-> "z", xml |-> "js", file |-> OnDisk(PlainConfig, TRUE)] :
             n \in {"a", "b"}}
    \cup {[fullName |-> n, name |-> "z", xml |-> "meta", file |-> f] :
             n \in {"a", "b"}, f \in FileStates}

xmlPathOf(shape, i) ==
    CASE shape.xml = "none" -> Undefined
      [] shape.xml = "js" -> JsPath(i)
      [] OTHER -> MetaPath(i)

BundlesOf(shapes) ==
    [i \in 1..Len(shapes) |->
        [id |-> i, fullName |-> shapes[i].fullName, name |-> shapes[i].name,
         type |-> [name |-> LWC_METADATA_TYPE_NAME], xml |-> xmlPathOf(shapes[i], i)]]

DiskOf(shapes) ==
    [path \in {MetaPath(i) : i \in 1..Len(shapes)} \cup {JsPath(i) : i \in 1..Len(shapes)} |->
        LET i == path.dir
        IN  IF xmlPathOf(shapes[i], i) = path THEN shapes[i].file ELSE Missing]

DefaultRequestBody == [contentBundles |-> <<>>, metadataType |-> "Generic", maxTokens |-> 250]
PatchRecord(componentName, response, status) ==
    [componentName |-> componentName, componentType |-> [name |-> LWC_METADATA_TYPE_NAME],
     requestBody |-> DefaultRequestBody, response |-> response, message |-> Null,
     status |-> status]

RecordChoices(componentName) ==
    { <<>>,
      <<PatchRecord(componentName, Null, FAIL)>>,
      <<PatchRecord(componentName, Null, SKIPPED)>>,
      <<PatchRecord(componentName, [results |-> <<>>], SUCCESS)>>,
      <<PatchRecord(componentName, [results |-> <<EnrichmentResult1>>], SUCCESS)>> }

RecordLists == {ra \o rb : ra \in RecordChoices("a"), rb \in RecordChoices("b")}

(***************************************************************************)
(* LwcProcessor.readComponentFiles and updateMetadataFiles.                *)
(***************************************************************************)
PatchIdle ==
    /\ ppc = "idle"
    /\ bundles = <<>>
    /\ enrichmentRecords = <<>>
    /\ disk = <<>>
    /\ fileContents = <<>>
    /\ fileIndex = 0
    /\ pendingWrite = Null
    /\ writes = <<>>
    /\ writeCalls = <<>>
    /\ firstRun = Null

\* LwcProcessor.readComponentFiles, lines 32-46
lwcReadComponentFiles(components, d) ==
    LET read(component) ==
            IF componentNameOf(component) = NoName \/ component.xml = Undefined THEN Null
            ELSE readComponentFile(componentNameOf(component), diskFile(d, component.xml))
    IN  SelectSeq([i \in 1..Len(components) |-> read(components[i])], NotNull)

\* lines 59-65: the position of the first record of that name, 0 when none
findRecord(records, componentName) ==
    IF \E i \in 1..Len(records) : records[i].componentName = componentName
    THEN CHOOSE i \in 1..Len(records) :
            /\ records[i].componentName = componentName
            /\ \A j \in 1..(i - 1) : records[j].componentName # componentName
    ELSE 0

\* a variant of enrichmentResultOf that goes on with an empty result when the
\* response has no first result
enrichmentResultOf_noFirstCheck(records, r) ==
    IF r = 0 THEN Undefined
    ELSE IF records[r].response = Null THEN Undefined
    ELSE IF Len(records[r].response.results) = 0
    THEN [description |-> NoText, descriptionScore |-> 0]
    ELSE records[r].response.results[1]

\* lines 67-74: the enrichment result to apply, Undefined when the loop
\* continues without one
enrichmentResultOf(records, r) ==
    IF r = 0 THEN Undefined
    ELSE IF records[r].response = Null THEN Undefined
    ELSE IF Len(records[r].response.results) = 0 THEN Undefined
    ELSE records[r].response.results[1]

\* lines 78-79: the record of a file whose skipUplift is enabled
skipUpliftRecord(record) ==
    [record EXCEPT !.message = Text("skipUplift is set to true"), !.status = SKIPPED]

Caught(record) == [rejected |-> FALSE, record |-> record]
Uncaught(error) == [rejected |-> TRUE, error |-> error]

\* a variant of catchError that lets the error escape
catchError_rethrow(record, error) == Uncaught(error)

\* a variant of catchError that also marks the record failed
catchError_markFail(record, error) ==
    Caught([record EXCEPT !.message = error.message, !.status = FAIL])

\* lines 87-90: the catch block
catchError(record, error) == Caught([record EXCEPT !.message = error.message])

\* updateMetadataFiles starts: the files are read
UpdateMetadataFiles ==
    /\ ppc = "idle"
    /\ \E shapes \in SeqsUpTo(BundleShapes, MaxBundles) : \E records \in RecordLists :
          /\ bundles' = BundlesOf(shapes)
          /\ enrichmentRecords' = records
          /\ disk' = DiskOf(shapes)
          /\ fileContents' = lwcReadComponentFiles(BundlesOf(shapes), DiskOf(shapes))
    /\ fileIndex' = 1
    /\ ppc' = "loop"
    /\ UNCHANGED <<pendingWrite, writes, writeCalls, firstRun>>
    /\ UNCHANGED <<enrichVars, metricsVars, recordsVars, callVars>>

\* updateMetadataFiles is called again with the same bundles and the same
\* records, on the files as the first call left them
UpdateMetadataFilesAgain ==
    /\ ppc = "done"
    /\ firstRun = Null
    /\ firstRun' = [disk |-> disk, enrichmentRecords |-> enrichmentRecords]
    /\ fileContents' = lwcReadComponentFiles(bundles, disk)
    /\ fileIndex' = 1
    /\ writes' = <<>>
    /\ writeCalls' = <<>>
    /\ ppc' = "loop"
    /\ UNCHANGED <<bundles, enrichmentRecords, disk, pendingWrite>>
    /\ UNCHANGED <<enrichVars, metricsVars, recordsVars, callVars>>

Continue ==
    /\ fileIndex' = fileIndex + 1
    /\ UNCHANGED <<ppc, bundles, disk, fileContents, pendingWrite, writes, writeCalls,
                   firstRun>>

\* a variant of afterWriteFileCall in which the loop goes on without waiting
\* for the write
afterWriteFileCall_notAwaited(index) == [ppc |-> "loop", fileIndex |-> index + 1]

\* line 86: await writeFile(...): the loop stays at the file until the write
\* settles
afterWriteFileCall(index) == [ppc |-> "writing", fileIndex |-> index]

\* one iteration of the loop, lines 54-86, up to continue, the catch block
\* or the await of writeFile
ProcessFile ==
    /\ ppc = "loop"
    /\ fileIndex <= Len(fileContents)
    /\ LET file == fileContents[fileIndex]
           r == findRecord(enrichmentRecords, file.componentName)
           enrichmentResult == enrichmentResultOf(enrichmentRecords, r)
       IN  IF ~isMetaXmlFile(file.filePath) \/ enrichmentResult = Undefined
           THEN Continue /\ UNCHANGED enrichmentRecords
           ELSE IF isSkipUpliftEnabled(file.fileContents)
           THEN /\ enrichmentRecords' =
                      [enrichmentRecords EXCEPT ![r] = skipUpliftRecord(@)]
                /\ Continue
           ELSE LET updatedXml == updateMetaXml(file.fileContents, enrichmentResult)
                IN  IF updatedXml.threw
                    THEN LET c == catchError(enrichmentRecords[r], updatedXml.error)
                         IN  IF c.rejected
                             THEN /\ ppc' = "rejected"
                                  /\ UNCHANGED <<bundles, enrichmentRecords, disk,
                                                 fileContents, fileIndex, pendingWrite,
                                                 writes, writeCalls, firstRun>>
                             ELSE /\ enrichmentRecords' =
                                        [enrichmentRecords EXCEPT ![r] = c.record]
                                  /\ Continue
                    ELSE /\ pendingWrite' = [filePath |-> file.filePath,
                                             data |-> updatedXml.value, record |-> r]
                         /\ writeCalls' = Append(writeCalls,
                                [filePath |-> file.filePath, file |-> fileIndex,
                                 settled |-> FALSE])
                         /\ ppc' = afterWriteFileCall(fileIndex).ppc
                         /\ fileIndex' = afterWriteFileCall(fileIndex).fileIndex
                         /\ UNCHANGED <<bundles, enrichmentRecords, disk, fileContents,
                                        writes, firstRun>>
    /\ UNCHANGED <<enrichVars, metricsVars, recordsVars, callVars>>

\* line 86: the writeFile call in flight settles
WriteFileSettles ==
    /\ ppc = "writing"
    /\ LET error == writeFileError(disk, pendingWrite.filePath)
           r == pendingWrite.record
       IN  IF error = Null
           THEN /\ disk' = [disk EXCEPT ![pendingWrite.filePath] =
                               OnDisk(pendingWrite.data, TRUE)]
                /\ writes' = Append(writes, [filePath |-> pendingWrite.filePath,
                                             data |-> pendingWrite.data])
                /\ fileIndex' = fileIndex + 1
                /\ ppc' = "loop"
                /\ UNCHANGED enrichmentRecords
           ELSE LET c == catchError(enrichmentRecords[r], error)
                IN  IF c.rejected
                    THEN /\ ppc' = "rejected"
                         /\ UNCHANGED <<enrichmentRecords, disk, fileIndex, writes>>
                    ELSE /\ enrichmentRecords' =
                               [enrichmentRecords EXCEPT ![r] = c.record]
                         /\ fileIndex' = fileIndex + 1
                         /\ ppc' = "loop"
                         /\ UNCHANGED <<disk, writes>>
    /\ pendingWrite' = Null
    /\ writeCalls' = [writeCalls EXCEPT ![Len(writeCalls)].settled = TRUE]
    /\ UNCHANGED <<bundles, fileContents, firstRun>>
    /\ UNCHANGED <<enrichVars, metricsVars, recordsVars, callVars>>

\* line 93: the loop is over and the records are returned
ReturnRecords ==
    /\ ppc = "loop"
    /\ fileIndex > Len(fileContents)
    /\ ppc' = "done"
    /\ UNCHANGED <<bundles, enrichmentRecords, disk, fileContents, fileIndex,
                   pendingWrite, writes, writeCalls, firstRun>>
    /\ UNCHANGED <<enrichVars, metricsVars, recordsVars, callVars>>

(***************************************************************************)
(* EnrichmentMetrics (src/src/enrichment/enrichmentMetrics.ts).  A         *)
(* ComponentEnrichmentStatus is [typeName, componentName, message].        *)
(***************************************************************************)
MaxMetricsRecords == 2

Bucket(count, components) == [count |-> count, components |-> components]

\* the constructor, lines 36-50
newEnrichmentMetrics ==
    [success |-> Bucket(0, <<>>), fail |-> Bucket(0, <<>>),
     skipped |-> Bucket(0, <<>>), total |-> 0]

addSuccessComponent(m, component) ==
    [m EXCEPT !.success = Bucket(@.count + 1, Append(@.components, component)),
              !.total = @ + 1]

addFailComponent(m, component) ==
    [m EXCEPT !.fail = Bucket(@.count + 1, Append(@.components, component)),
              !.total = @ + 1]

\* a variant of addSkippedComponent that forgets the grand total
addSkippedComponent_noTotal(m, component) ==
    [m EXCEPT !.skipped = Bucket(@.count + 1, Append(@.components, component))]

addSkippedComponent(m, component) ==
    [m EXCEPT !.skipped = Bucket(@.count + 1, Append(@.components, component)),
              !.total = @ + 1]

\* a variant of typeNameOf that does not look at the response
typeNameOf_typeOnly(record) ==
    IF record.componentType # Null THEN record.componentType.name ELSE ""

\* lines 60-65: the type name of a record, "" when it cannot be determined
typeNameOf(record) ==
    IF record.componentType # Null THEN record.componentType.name
    ELSE IF record.response # Null /\ Len(record.response.results) > 0
    THEN record.response.results[1].metadataType
    ELSE ""

\* lines 72-76
componentStatus(record) ==
    [typeName |-> typeNameOf(record),
     componentName |-> record.componentName,
     message |-> IF record.message # Null THEN record.message
                 ELSE IF record.status = SUCCESS THEN Text("")
                 ELSE Text("Enrichment request failed")]

\* a variant of addRecord that takes a record with a response for a success
addRecord_byResponse(m, record) ==
    IF typeNameOf(record) = "" THEN m
    ELSE IF record.response # Null THEN addSuccessComponent(m, componentStatus(record))
    ELSE IF record.status = SKIPPED THEN addSkippedComponent(m, componentStatus(record))
    ELSE addFailComponent(m, componentStatus(record))

\* lines 57-85: one iteration of the loop of createEnrichmentMetrics
addRecord(m, record) ==
    IF typeNameOf(record) = "" THEN m
    ELSE IF record.status = SUCCESS THEN addSuccessComponent(m, componentStatus(record))
    ELSE IF record.status = SKIPPED THEN addSkippedComponent(m, componentStatus(record))
    ELSE addFailComponent(m, componentStatus(record))

RECURSIVE metricsAfter(_, _)
\* the metrics after the first n records of the loop
metricsAfter(records, n) ==
    IF n = 0 THEN newEnrichmentMetrics
    ELSE addRecord(metricsAfter(records, n - 1), records[n])

createEnrichmentMetrics(records) == metricsAfter(records, Len(records))

\* the records createEnrichmentMetrics is called with; the record at
\* position i is named RecordNames[i]
MetricsResult ==
    [metadataType |-> LWC_METADATA_TYPE_NAME, description |-> "D1", descriptionScore |-> 95]
MetricsRecordShapes ==
    {[componentType |-> t, response |-> r, message |-> Null, status |-> s] :
        t \in {Null, [name |-> "ApexClass"]},
        r \in {Null, [results |-> <<>>], [results |-> <<MetricsResult>>]},
        s \in EnrichmentStatus}
    \cup {[componentType |-> [name |-> "ApexClass"], response |-> Null,
           message |-> Text("m"), status |-> s] : s \in {SUCCESS, FAIL}}
RecordNames == <<"r1", "r2", "r3", "r4", "r5">>
MetricsRecordLists ==
    {[i \in 1..Len(shapes) |->
         [componentName |-> RecordNames[i], componentType |-> shapes[i].componentType,
          requestBody |-> Null, response |-> shapes[i].response,
          message |-> shapes[i].message, status |-> shapes[i].status]] :
     shapes \in SeqsUpTo(MetricsRecordShapes, MaxMetricsRecords)}

\* the component the add*Component methods are called with from outside
AddedComponent ==
    [typeName |-> LWC_METADATA_TYPE_NAME, componentName |-> "testComponent",
     message |-> Text("Success")]

MetricsIdle ==
    /\ metricsMade = FALSE
    /\ metrics = newEnrichmentMetrics
    /\ metricsInput = <<>>
    /\ addCalls = 0

\* new EnrichmentMetrics()
NewEnrichmentMetrics ==
    /\ ~metricsMade
    /\ metricsMade' = TRUE
    /\ metrics' = newEnrichmentMetrics
    /\ UNCHANGED <<metricsInput, addCalls>>
    /\ UNCHANGED <<enrichVars, patchVars, recordsVars, callVars>>

\* EnrichmentMetrics.createEnrichmentMetrics(records)
CreateEnrichmentMetrics ==
    /\ ~metricsMade
    /\ \E records \in MetricsRecordLists :
          /\ metricsInput' = records
          /\ metrics' = createEnrichmentMetrics(records)
    /\ metricsMade' = TRUE
    /\ UNCHANGED addCalls
    /\ UNCHANGED <<enrichVars, patchVars, recordsVars, callVars>>

\* the calls from outside are bounded together with the records
CanAdd == metricsMade /\ Len(metricsInput) + addCalls < MaxMetricsRecords

AddSuccessComponent ==
    /\ CanAdd
    /\ metrics' = addSuccessComponent(metrics, AddedComponent)
    /\ addCalls' = addCalls + 1
    /\ UNCHANGED <<metricsMade, metricsInput>>
    /\ UNCHANGED <<enrichVars, patchVars, recordsVars, callVars>>

AddFailComponent ==
    /\ CanAdd
    /\ metrics' = addFailComponent(metrics, AddedComponent)
    /\ addCalls' = addCalls + 1
    /\ UNCHANGED <<metricsMade, metricsInput>>
    /\ UNCHANGED <<enrichVars, patchVars, recordsVars, callVars>>

AddSkippedComponent ==
    /\ CanAdd
    /\ metrics' = addSkippedComponent(metrics, AddedComponent)
    /\ addCalls' = addCalls + 1
    /\ UNCHANGED <<metricsMade, metricsInput>>
    /\ UNCHANGED <<enrichVars, patchVars, recordsVars, callVars>>

NextMetrics ==
    \/ NewEnrichmentMetrics
    \/ CreateEnrichmentMetrics
    \/ AddSuccessComponent
    \/ AddFailComponent
    \/ AddSkippedComponent

(***************************************************************************)
(* EnrichmentRecords (src/src/enrichment/enrichmentRecords.ts).  The       *)
(* recordSet is a Set of objects: a sequence in insertion order, in which  *)
(* two records may be equal field by field.  A Set argument is likewise    *)
(* the sequence of its elements in insertion order.                        *)
(***************************************************************************)
MaxCalls == 2

DEFAULT_REQUEST_BODY == [contentBundles |-> <<>>, metadataType |-> "Generic", maxTokens |-> 50]

\* a message is truthy when it is neither null nor the empty text
truthyMessage(message) == message # Null /\ message # Text("")

\* the source components: fullName, name, type and xml
StoreComponentShapes ==
    {[fullName |-> idn[1], name |-> idn[2], type |-> tx[1], xml |-> tx[2]] :
        idn \in {<<NoName, NoName>>, <<NoName, "">>, <<NoName, "a">>, <<"b", "a">>},
        tx \in {<<Undefined, Undefined>>,
                <<[name |-> "ApexClass"], Undefined>>,
                <<[name |-> LWC_METADATA_TYPE_NAME], Undefined>>,
                <<[name |-> LWC_METADATA_TYPE_NAME], Path(0, <<"c", "js-meta", "xml">>)>>}}
StoreComponentLists == SeqsUpTo(StoreComponentShapes, MaxComponents)

\* lines 40-47
initialRecord(component) ==
    [componentName |-> componentNameOf(component), componentType |-> component.type,
     requestBody |-> DEFAULT_REQUEST_BODY, response |-> Null, message |-> Null,
     status |-> NOT_PROCESSED]

\* a variant of hasInitialRecord that does not look at the type
hasInitialRecord_noTypeCheck(component) == truthyName(componentNameOf(component))

\* line 39
hasInitialRecord(component) ==
    truthyName(componentNameOf(component)) /\ component.type # Undefined

RECURSIVE initialRecords(_, _)
\* lines 37-49: the recordSet after the first n components
initialRecords(projectSourceComponents, n) ==
    IF n = 0 THEN <<>>
    ELSE LET prev == initialRecords(projectSourceComponents, n - 1)
             component == projectSourceComponents[n]
         IN  IF hasInitialRecord(component)
             THEN Append(prev, initialRecord(component))
             ELSE prev

\* the constructor
newEnrichmentRecords(projectSourceComponents) ==
    initialRecords(projectSourceComponents, Len(projectSourceComponents))

\* lines 57: the position of the first record of that name, 0 when none
existingRecord(records, componentName) ==
    IF \E i \in 1..Len(records) : records[i].componentName = componentName
    THEN CHOOSE i \in 1..Len(records) :
            /\ records[i].componentName = componentName
            /\ \A j \in 1..(i - 1) : records[j].componentName # componentName
    ELSE 0

\* lines 61-68
skippedRecord(component) ==
    [componentName |-> component.componentName,
     componentType |-> [name |-> component.typeName],
     requestBody |-> DEFAULT_REQUEST_BODY, response |-> Null, message |-> Null,
     status |-> SKIPPED]

\* a variant of addSkippedComponent that marks an existing record skipped
addSkippedRecord_overwrite(records, component) ==
    IF ~truthyName(component.componentName) THEN records
    ELSE IF existingRecord(records, component.componentName) # 0
    THEN [records EXCEPT ![existingRecord(records, component.componentName)].status = SKIPPED]
    ELSE Append(records, skippedRecord(component))

\* lines 54-68: one iteration of the loop of addSkippedComponents
addSkippedRecord(records, component) ==
    IF ~truthyName(component.componentName) THEN records
    ELSE IF existingRecord(records, component.componentName) # 0 THEN records
    ELSE Append(records, skippedRecord(component))

RECURSIVE addSkippedLoop(_, _, _)
addSkippedLoop(records, componentsToSkip, n) ==
    IF n = 0 THEN records
    ELSE addSkippedRecord(addSkippedLoop(records, componentsToSkip, n - 1),
                          componentsToSkip[n])

addSkippedComponents(records, componentsToSkip) ==
    addSkippedLoop(records, componentsToSkip, Len(componentsToSkip))

\* a variant of updateWithStatus that leaves a skipped record as it is
updateWithStatus_keepSkipped(records, componentsToUpdate, status) ==
    LET componentsToUpdateMap ==
            {n \in {componentsToUpdate[i].componentName :
                        i \in 1..Len(componentsToUpdate)} : truthyName(n)}
    IN  [i \in 1..Len(records) |->
            IF records[i].componentName \in componentsToUpdateMap
               /\ records[i].status # SKIPPED
            THEN [records[i] EXCEPT !.status = status]
            ELSE records[i]]

\* lines 72-86
updateWithStatus(records, componentsToUpdate, status) ==
    LET componentsToUpdateMap ==
            {n \in {componentsToUpdate[i].componentName :
                        i \in 1..Len(componentsToUpdate)} : truthyName(n)}
    IN  [i \in 1..Len(records) |->
            IF records[i].componentName \in componentsToUpdateMap
            THEN [records[i] EXCEPT !.status = status]
            ELSE records[i]]

\* line 89: new Map(results.map(...)).get(componentName): the position of the
\* last result of that name, 0 when none
resultsMap(results, componentName) ==
    IF \E i \in 1..Len(results) : results[i].componentName = componentName
    THEN CHOOSE i \in 1..Len(results) :
            /\ results[i].componentName = componentName
            /\ \A j \in (i + 1)..Len(results) : results[j].componentName # componentName
    ELSE 0

\* a variant of mergeResult that sets the status of a skipped record too
mergeResult_noSkippedGuard(record, processedResult) ==
    [record EXCEPT !.requestBody = processedResult.requestBody,
                   !.response = processedResult.response,
                   !.status = IF processedResult.response # Null THEN SUCCESS ELSE FAIL,
                   !.message = processedResult.message]

\* lines 93-98
mergeResult(record, processedResult) ==
    [record EXCEPT !.requestBody = processedResult.requestBody,
                   !.response = processedResult.response,
                   !.status = IF record.status # SKIPPED
                              THEN IF processedResult.response # Null
                                   THEN SUCCESS ELSE FAIL
                              ELSE record.status,
                   !.message = processedResult.message]

\* a variant of updateWithResults that takes the status of the incoming record
updateWithResults_copyStatus(records, results) ==
    [i \in 1..Len(records) |->
        LET p == resultsMap(results, records[i].componentName)
        IN  IF p # 0
            THEN [records[i] EXCEPT !.requestBody = results[p].requestBody,
                                    !.response = results[p].response,
                                    !.status = results[p].status,
                                    !.message = results[p].message]
            ELSE records[i]]

\* a variant of updateWithResults that adds the incoming records whose name
\* no record of the store has
updateWithResults_upsert(records, results) ==
    LET known(r) == \E i \in 1..Len(records) : records[i].componentName = r.componentName
        unknown(r) == ~known(r)
    IN  [i \in 1..Len(records) |->
            LET p == resultsMap(results, records[i].componentName)
            IN  IF p # 0 THEN mergeResult(records[i], results[p]) ELSE records[i]]
        \o SelectSeq(results, unknown)

\* lines 88-101
updateWithResults(records, results) ==
    [i \in 1..Len(records) |->
        LET p == resultsMap(results, records[i].componentName)
        IN  IF p # 0 THEN mergeResult(records[i], results[p]) ELSE records[i]]

\* lines 107-113: sourceComponentMap.get(componentName): the position of the
\* last source component of that name, 0 when none
sourceComponentMap(projectSourceComponents, componentName) ==
    LET named == {i \in 1..Len(projectSourceComponents) :
                     /\ truthyName(componentNameOf(projectSourceComponents[i]))
                     /\ componentNameOf(projectSourceComponents[i]) = componentName}
    IN  IF named = {} THEN 0
        ELSE CHOOSE i \in named : \A j \in named : j <= i

\* a variant of skipReason that looks at the type before it looks whether
\* the component was found
skipReason_typeFirst(projectSourceComponents, componentName) ==
    LET p == sourceComponentMap(projectSourceComponents, componentName)
    IN  IF p = 0 \/ ~isLwc(projectSourceComponents[p])
        THEN getMessage("errors.lwc.only", <<>>)
        ELSE IF projectSourceComponents[p].xml = Undefined
        THEN getMessage("errors.lwc.configuration.not.found", <<>>)
        ELSE getMessage("errors.unknown", <<>>)

\* lines 121-131
skipReason(projectSourceComponents, componentName) ==
    LET p == sourceComponentMap(projectSourceComponents, componentName)
    IN  IF p = 0 THEN getMessage("errors.component.not.found", <<>>)
        ELSE IF ~isLwc(projectSourceComponents[p])
        THEN getMessage("errors.lwc.only", <<>>)
        ELSE IF projectSourceComponents[p].xml = Undefined
        THEN getMessage("errors.lwc.configuration.not.found", <<>>)
        ELSE getMessage("errors.unknown", <<>>)

\* a variant of explainSkip that does not look at the status of the record
explainSkip_anyStatus(records, skip, projectSourceComponents) ==
    LET r == existingRecord(records, skip.componentName)
    IN  IF ~truthyName(skip.componentName) THEN records
        ELSE IF r = 0 THEN records
        ELSE IF truthyMessage(records[r].message) THEN records
        ELSE [records EXCEPT ![r].message =
                 skipReason(projectSourceComponents, skip.componentName)]

\* lines 116-133: one iteration of the second loop of generateSkipReasons
explainSkip(records, skip, projectSourceComponents) ==
    LET r == existingRecord(records, skip.componentName)
    IN  IF ~truthyName(skip.componentName) THEN records
        ELSE IF r = 0 THEN records
        ELSE IF records[r].status # SKIPPED \/ truthyMessage(records[r].message)
        THEN records
        ELSE [records EXCEPT ![r].message =
                 skipReason(projectSourceComponents, skip.componentName)]

RECURSIVE explainSkipsLoop(_, _, _, _)
explainSkipsLoop(records, componentsToSkip, projectSourceComponents, n) ==
    IF n = 0 THEN records
    ELSE explainSkip(
             explainSkipsLoop(records, componentsToSkip, projectSourceComponents, n - 1),
             componentsToSkip[n], projectSourceComponents)

generateSkipReasons(records, componentsToSkip, projectSourceComponents) ==
    explainSkipsLoop(records, componentsToSkip, projectSourceComponents,
                     Len(componentsToSkip))

\* the arguments of the methods
TypeAndName(componentName) ==
    [typeName |-> LWC_METADATA_TYPE_NAME, componentName |-> componentName]
ComponentSets ==
    { <<>>, <<TypeAndName("a")>>, <<TypeAndName("c")>>, <<TypeAndName(NoName)>>,
      <<TypeAndName("a"), TypeAndName("c")>>,
      <<[typeName |-> "ApexClass", componentName |-> "c"], TypeAndName("c")>> }
SentBody == [contentBundles |-> <<"bundle">>, metadataType |-> "Generic", maxTokens |-> 250]
IncomingRecord(componentName, response, message) ==
    [componentName |-> componentName, componentType |-> [name |-> LWC_METADATA_TYPE_NAME],
     requestBody |-> SentBody, response |-> response, message |-> message,
     status |-> IF response # Null THEN SUCCESS ELSE FAIL]
IncomingRecords ==
    {IncomingRecord(n, rm[1], rm[2]) :
        n \in {"a", "c"},
        rm \in {<<[results |-> <<EnrichmentResult1>>], Null>>,
                <<Null, Text("API request failed")>>}}
ResultsLists == SeqsUpTo(IncomingRecords, 2)
ProjectLists ==
    { <<>> } \cup
    {<<[fullName |-> "a", name |-> "a", type |-> tx[1], xml |-> tx[2]]>> :
        tx \in {<<Undefined, Undefined>>,
                <<[name |-> "ApexClass"], Undefined>>,
                <<[name |-> LWC_METADATA_TYPE_NAME], Undefined>>,
                <<[name |-> LWC_METADATA_TYPE_NAME], Path(0, <<"c", "js-meta", "xml">>)>>}}
    \cup
    { <<[fullName |-> NoName, name |-> "a", type |-> [name |-> "ApexClass"],
         xml |-> Undefined],
        [fullName |-> "a", name |-> "z", type |-> [name |-> LWC_METADATA_TYPE_NAME],
         xml |-> Undefined]>> }

NoCall == [method |-> "none", args |-> <<>>, before |-> <<>>]
Call(method, args, before) == [method |-> method, args |-> args, before |-> before]

RecordsIdle ==
    /\ storeMade = FALSE
    /\ recordSet = <<>>
    /\ calls = 0
    /\ lastCall = NoCall

\* new EnrichmentRecords(projectSourceComponents)
NewEnrichmentRecords ==
    /\ ~storeMade
    /\ \E projectSourceComponents \in StoreComponentLists :
          /\ recordSet' = newEnrichmentRecords(projectSourceComponents)
          /\ lastCall' = Call("constructor", <<projectSourceComponents>>, <<>>)
    /\ storeMade' = TRUE
    /\ UNCHANGED calls
    /\ UNCHANGED <<enrichVars, patchVars, metricsVars, callVars>>

CanCall == storeMade /\ calls < MaxCalls

AddSkippedComponents ==
    /\ CanCall
    /\ \E componentsToSkip \in ComponentSets :
          /\ recordSet' = addSkippedComponents(recordSet, componentsToSkip)
          /\ lastCall' = Call("addSkippedComponents", <<componentsToSkip>>, recordSet)
    /\ calls' = calls + 1
    /\ UNCHANGED storeMade
    /\ UNCHANGED <<enrichVars, patchVars, metricsVars, callVars>>

UpdateWithStatus ==
    /\ CanCall
    /\ \E componentsToUpdate \in ComponentSets : \E status \in EnrichmentStatus :
          /\ recordSet' = updateWithStatus(recordSet, componentsToUpdate, status)
          /\ lastCall' = Call("updateWithStatus", <<componentsToUpdate, status>>, recordSet)
    /\ calls' = calls + 1
    /\ UNCHANGED storeMade
    /\ UNCHANGED <<enrichVars, patchVars, metricsVars, callVars>>

UpdateWithResults ==
    /\ CanCall
    /\ \E results \in ResultsLists :
          /\ recordSet' = updateWithResults(recordSet, results)
          /\ lastCall' = Call("updateWithResults", <<results>>, recordSet)
    /\ calls' = calls + 1
    /\ UNCHANGED storeMade
    /\ UNCHANGED <<enrichVars, patchVars, metricsVars, callVars>>

GenerateSkipReasons ==
    /\ CanCall
    /\ \E componentsToSkip \in ComponentSets : \E projectSourceComponents \in ProjectLists :
          /\ recordSet' =
                 generateSkipReasons(recordSet, componentsToSkip, projectSourceComponents)
          /\ lastCall' = Call("generateSkipReasons",
                               <<componentsToSkip, projectSourceComponents>>, recordSet)
    /\ calls' = calls + 1
    /\ UNCHANGED storeMade
    /\ UNCHANGED <<enrichVars, patchVars, metricsVars, callVars>>

NextRecords ==
    \/ NewEnrichmentRecords
    \/ AddSkippedComponents
    \/ UpdateWithStatus
    \/ UpdateWithResults
    \/ GenerateSkipReasons

(***************************************************************************)
(* Calls of the static functions: getMimeTypeFromExtension,                *)
(* FileProcessor.readComponentFile, FileProcessor.readComponentFiles and   *)
(* LwcProcessor.updateMetaXml.                                             *)
(***************************************************************************)
MaxFiles == 2

NotCalled == [fn |-> "none", args |-> <<>>]
Called(fn, args) == [fn |-> fn, args |-> args]

\* file paths: the directory is given by the dot-separated parts of its name
MimeDirs == {<<>>, <<"lwc">>, <<"d", "js">>}
MimeParts == {"js", "JS", "Js", "html", "HTML", "css", "CSS", "xml", "XML", "svg",
              "SVG", "txt", "TXT", "map", ""}
MimeBases ==
    {<<"c">>} \cup {<<n, e>> : n \in {"c", ""}, e \in MimeParts}
    \cup {<<n, e1, e2>> : n \in {"c", ""}, e1 \in {"js", "min", ""}, e2 \in MimeParts}
MimePaths == {Path(d, b) : d \in MimeDirs, b \in MimeBases}

\* the files of a component: what walkContent yields and what readFile
\* does on each path
CallFiles ==
    {ContentFile(Path(0, <<"c", e>>), readable) :
        e \in {"js", "html"}, readable \in BOOLEAN}
CallComponents ==
    {[id |-> 1, fullName |-> idn[1], name |-> idn[2],
      type |-> [name |-> LWC_METADATA_TYPE_NAME], content |-> c] :
        idn \in {<<NoName, NoName>>, <<NoName, "">>, <<NoName, "a">>, <<"b", "a">>},
        c \in SeqsUpTo(CallFiles, MaxFiles)}

\* the texts and results updateMetaXml is called with
VersionedConfig == XmlText(TRUE, TRUE, FALSE, Bundle("60.0", Undefined), "source")
TextOnlyConfig(text) == XmlText(TRUE, TRUE, FALSE, TextOnly(text), "source")
XmlContents ==
    ConfigTexts \cup {VersionedConfig}
    \cup {XmlText(TRUE, TRUE, TRUE, lcb, "source") : lcb \in TextOnlyBundles}
    \cup {XmlText(TRUE, TRUE, TRUE, Bundle(rest, Ai("true", "D0", "0.5")), "source") :
             rest \in {NoText, "apiVersion", "60"}}
EnrichmentResults ==
    {[description |-> d, descriptionScore |-> score] : d \in {"D1", "D2"}, score \in {95, 90}}

\* the files read for a component: the paths walkContent yields are distinct,
\* their base names need not be
BundleDirs == {<<"lwc", "c">>, <<"lwc", "c", "__tests__">>}
BundleBases == {<<"c", "js">>, <<"c", "html">>, PROTO_KEY}
BundleFiles ==
    {readComponentFile("a", ContentFile(Path(d, b), TRUE)) : d \in BundleDirs, b \in BundleBases}
    \cup {[readComponentFile("a", ContentFile(Path(d, b), TRUE)) EXCEPT !.fileContents = "text2"] :
             d \in BundleDirs, b \in BundleBases}
BundleFileLists ==
    {files \in SeqsUpTo(BundleFiles, MaxFiles) :
        \A i, j \in 1..Len(files) : i # j => files[i].filePath # files[j].filePath}

CallsIdle ==
    /\ called = NotCalled
    /\ fileReadPromises = <<>>
    /\ settled = <<>>
    /\ returned = Returned(Undefined)

\* one call is modelled: the functions keep no state between calls
NoCallInProgress == called = NotCalled

GetMimeTypeFromExtension ==
    /\ NoCallInProgress
    /\ \E filePath \in MimePaths :
          /\ called' = Called("getMimeTypeFromExtension", <<filePath>>)
          /\ returned' = Returned(getMimeTypeFromExtension(filePath))
    /\ UNCHANGED <<fileReadPromises, settled>>
    /\ UNCHANGED <<enrichVars, patchVars, metricsVars, recordsVars>>

\* FileProcessor.readComponentFile: the promise it returns settles
ReadComponentFile ==
    /\ NoCallInProgress
    /\ \E componentName \in {"a", "b"} : \E file \in CallFiles :
          /\ called' = Called("readComponentFile", <<componentName, file>>)
          /\ returned' = Fulfilled(readComponentFile(componentName, file))
    /\ UNCHANGED <<fileReadPromises, settled>>
    /\ UNCHANGED <<enrichVars, patchVars, metricsVars, recordsVars>>

\* FileProcessor.readComponentFiles, lines 53-60: the early return, or the
\* reads of all the paths start
ReadComponentFiles ==
    /\ NoCallInProgress
    /\ \E component \in CallComponents :
          /\ called' = Called("readComponentFiles", <<component>>)
          /\ IF ~truthyName(componentNameOf(component))
             THEN /\ returned' = Fulfilled(<<>>)
                  /\ fileReadPromises' = <<>>
             ELSE /\ returned' = Pending
                  /\ fileReadPromises' = [i \in 1..Len(component.content) |-> Pending]
    /\ settled' = <<>>
    /\ UNCHANGED <<enrichVars, patchVars, metricsVars, recordsVars>>

\* the k-th readComponentFile of the call in progress settles
FileReadSettles(k) ==
    /\ called.fn = "readComponentFiles"
    /\ returned = Pending
    /\ k \in 1..Len(fileReadPromises)
    /\ fileReadPromises[k] = Pending
    /\ fileReadPromises' = [fileReadPromises EXCEPT ![k] =
           Fulfilled(readComponentFile(componentNameOf(called.args[1]),
                                       called.args[1].content[k]))]
    /\ settled' = Append(settled, k)
    /\ UNCHANGED <<called, returned>>
    /\ UNCHANGED <<enrichVars, patchVars, metricsVars, recordsVars>>

\* a variant of awaitAll that yields the values in the order of settling
awaitAll_settleOrder(promises, order) ==
    [i \in 1..Len(order) |-> FulfilledValue(promises[order[i]])]

\* line 62: await Promise.all(fileReadPromises), the values by position
awaitAll(promises, order) == Values(promises)

\* lines 62-63: Promise.all resolves and the null results are filtered out
ReadComponentFilesResolves ==
    /\ called.fn = "readComponentFiles"
    /\ returned = Pending
    /\ AllSettled(fileReadPromises)
    /\ returned' = Fulfilled(SelectSeq(awaitAll(fileReadPromises, settled), NotNull))
    /\ UNCHANGED <<called, fileReadPromises, settled>>
    /\ UNCHANGED <<enrichVars, patchVars, metricsVars, recordsVars>>

\* EnrichmentHandler.createContentBundle, lines 147-159
CreateContentBundle ==
    /\ NoCallInProgress
    /\ \E componentName \in {"a", "b"} : \E files \in BundleFileLists :
          /\ called' = Called("createContentBundle", <<componentName, files>>)
          /\ returned' = Returned(createContentBundle(componentName, files))
    /\ UNCHANGED <<fileReadPromises, settled>>
    /\ UNCHANGED <<enrichVars, patchVars, metricsVars, recordsVars>>

UpdateMetaXml ==
    /\ NoCallInProgress
    /\ \E xmlContent \in XmlContents : \E result \in EnrichmentResults :
          /\ called' = Called("updateMetaXml", <<xmlContent, result>>)
          /\ returned' = updateMetaXml(xmlContent, result)
    /\ UNCHANGED <<fileReadPromises, settled>>
    /\ UNCHANGED <<enrichVars, patchVars, metricsVars, recordsVars>>

NextCalls ==
    \/ CreateContentBundle
    \/ UpdateMetaXml
    \/ GetMimeTypeFromExtension
    \/ ReadComponentFile
    \/ ReadComponentFiles
    \/ \E k \in 1..MaxFiles : FileReadSettles(k)
    \/ ReadComponentFilesResolves

vars == <<enrichVars, patchVars, metricsVars, recordsVars, callVars>>

Init == EnrichIdle /\ PatchIdle /\ MetricsIdle /\ RecordsIdle /\ CallsIdle

SpecMetrics == Init /\ [][NextMetrics]_vars

SpecRecords == Init /\ [][NextRecords]_vars

SpecCalls == Init /\ [][NextCalls]_vars

NextPatch ==
    \/ UpdateMetadataFiles
    \/ ProcessFile
    \/ WriteFileSettles
    \/ ReturnRecords

SpecPatch == Init /\ [][NextPatch]_vars

NextRerun ==
    \/ UpdateMetadataFiles
    \/ ProcessFile
    \/ WriteFileSettles
    \/ ReturnRecords
    \/ UpdateMetadataFilesAgain

\* updateMetadataFiles called once and then once more
SpecRerun == Init /\ [][NextRerun]_vars


Next ==
    \/ Enrich
    \/ \E k \in 1..MaxComponents : LwcRecordSettles(k)
    \/ AwaitLwcRecords
    \/ \E k \in 1..MaxComponents : NonLwcRecordSettles(k)
    \/ AwaitNonLwcRecords
    \/ \E k \in 1..MaxComponents : \E response \in Responses(k) : PostResolves(k, response)
    \/ \E k \in 1..MaxComponents, m \in ErrorTexts : PostRejects(k, m)
    \/ AwaitRequests

Spec == Init /\ [][Next]_vars

\* every file read and every requestPost call settles and every continuation
\* of enrich runs: a step of the call is taken whenever one is possible
SpecFair == Spec /\ WF_vars(Next)

(***************************************************************************)
(* Properties of EnrichmentHandler.enrich (specification Spec).            *)
(***************************************************************************)
EnrichDone == pc = "done"

\* the vocabulary of the claims, stated on the input components
Named(component) == component.fullName # NoName \/ component.name # NoName
Eligible(component) ==
    component.type # Undefined /\ component.type.name = "LightningComponentBundle"
InputComponents == Range(sourceComponents)
\* the records built at classification time
CreatedRecords == Range(lwcRecords) \cup Range(nonLwcRecords)
\* the returned records built from the component of identity id
ReturnedFor(id) == {i \in 1..Len(enrichResult) : enrichResult[i].origin = id}
\* the requestPost calls made on behalf of the component of identity id
PostsFor(id) == {k \in 1..Len(posts) : posts[k].origin = id}
FilesRead(component) == Len(readComponentFiles(component))

\* C1: every record created with status SKIPPED still has status SKIPPED in
\* the list enrich returns, whether its POST resolves or rejects.
C1_SkippedNeverOverwritten ==
    EnrichDone =>
        \A r \in CreatedRecords :
            r.status = SKIPPED =>
                /\ ReturnedFor(r.origin) # {}
                /\ \A i \in ReturnedFor(r.origin) : enrichResult[i].status = SKIPPED

\* C2: no requestPost call is made on behalf of an eligible component whose
\* file read returned zero files (whose request body is null).
C2_NoPostForNullBody ==
    \A c \in InputComponents :
        (Eligible(c) /\ FilesRead(c) = 0) => PostsFor(c.id) = {}

RejectedPosts == {k \in 1..Len(answers) : answers[k].state = "rejected"}
AllEligibleHaveFiles ==
    \A c \in InputComponents : (Eligible(c) /\ Named(c)) => FilesRead(c) > 0
EligibleReturned ==
    {i \in 1..Len(enrichResult) : Eligible(sourceComponents[enrichResult[i].origin])}

\* C3: when every eligible component has files and exactly one POST rejects,
\* exactly one returned record is FAIL, it is the record of the rejecting
\* component and has a null response, and every other eligible record is
\* the record as created with status SUCCESS and the response of its own POST.
C3_PartialFailureIsolation ==
    (EnrichDone /\ AllEligibleHaveFiles /\ Cardinality(RejectedPosts) = 1) =>
        /\ Cardinality({i \in 1..Len(enrichResult) : enrichResult[i].status = FAIL}) = 1
        /\ Cardinality(EligibleReturned) = Len(posts)
        /\ \A k \in 1..Len(posts) :
              \E i \in EligibleReturned :
                 /\ enrichResult[i].origin = posts[k].origin
                 /\ enrichResult[i].componentName =
                        componentNameOf(sourceComponents[posts[k].origin])
                 /\ IF k \in RejectedPosts
                    THEN /\ enrichResult[i].status = FAIL
                         /\ enrichResult[i].response = Null
                    ELSE enrichResult[i] =
                            [lwcRecords[k] EXCEPT !.status = SUCCESS,
                                                  !.response = answers[k].value]

C3_Witness ==
    /\ EnrichDone
    /\ AllEligibleHaveFiles
    /\ Len(posts) = 2
    /\ RejectedPosts = {1}
    /\ enrichResult[1].status = FAIL
    /\ enrichResult[2].status = SUCCESS

\* C4: when the POST of a component rejects with an error of text m, the
\* record returned for the component is FAIL with a null response and a
\* message that includes m.
C4_FailCapturesErrorText ==
    EnrichDone =>
        \A k \in RejectedPosts : \A m \in ErrorTexts :
            answers[k].reason = Error(Text(m)) =>
                /\ ReturnedFor(posts[k].origin) # {}
                /\ \A i \in ReturnedFor(posts[k].origin) :
                      /\ enrichResult[i].status = FAIL
                      /\ enrichResult[i].response = Null
                      /\ Includes(enrichResult[i].message, m)

\* C5: in the returned list every record of an eligible component precedes
\* every record of an ineligible one, and within each partition the records
\* are in the order of their components in the input.
C5_EligibleFirstOrdering ==
    EnrichDone =>
        \A i, j \in 1..Len(enrichResult) :
            i < j =>
                LET ci == sourceComponents[enrichResult[i].origin]
                    cj == sourceComponents[enrichResult[j].origin]
                IN  /\ ~(~Eligible(ci) /\ Eligible(cj))
                    /\ (Eligible(ci) <=> Eligible(cj)) => ci.id < cj.id

C5_Witness ==
    /\ EnrichDone
    /\ Len(sourceComponents) = 2
    /\ ~Eligible(sourceComponents[1])
    /\ Eligible(sourceComponents[2])
    /\ Len(enrichResult) = 2
    /\ enrichResult[1].origin = 2
    /\ enrichResult[2].origin = 1

\* C6: for an input component with neither fullName nor name, whatever its
\* type, no requestPost call is made and enrich returns no record.
C6_NoIdentityNoRecordNoPost ==
    \A c \in InputComponents :
        ~Named(c) =>
            /\ PostsFor(c.id) = {}
            /\ \A r \in CreatedRecords : r.origin # c.id
            /\ EnrichDone => ReturnedFor(c.id) = {}

C6_Witness ==
    /\ EnrichDone
    /\ \E c \in InputComponents : ~Named(c) /\ Eligible(c)
    /\ \E c \in InputComponents : ~Named(c) /\ ~Eligible(c)
    /\ enrichResult = <<>>

\* C7: for a named ineligible component, whatever its files, the record
\* returned is SKIPPED with a null response and no requestPost call is made.
C7_IneligibleSkippedNoPost ==
    \A c \in InputComponents :
        (Named(c) /\ ~Eligible(c)) =>
            /\ PostsFor(c.id) = {}
            /\ EnrichDone =>
                  /\ Cardinality(ReturnedFor(c.id)) = 1
                  /\ \A i \in ReturnedFor(c.id) :
                        /\ enrichResult[i].status = SKIPPED
                        /\ enrichResult[i].response = Null

C7_Witness ==
    /\ EnrichDone
    /\ \E c \in InputComponents :
          Named(c) /\ c.type = [name |-> "ApexClass"] /\ FilesRead(c) > 0
    /\ \E c \in InputComponents : Named(c) /\ c.type = Undefined /\ FilesRead(c) = 0
    /\ posts = <<>>

(***************************************************************************)
(* Properties of LwcProcessor.updateMetadataFiles (specification           *)
(* SpecPatch).                                                             *)
(***************************************************************************)
PatchDone == ppc = "done"
\* the loop is about to process the file at fileIndex
AtFile == ppc = "loop" /\ fileIndex <= Len(fileContents)
CurrentFile == fileContents[fileIndex]

\* the vocabulary of the claims
IsConfigFile(filePath) == filePath.base = <<"c", "js-meta", "xml">>
OptOut(text) ==
    /\ text.wellFormed
    /\ text.tree.LightningComponentBundle # Undefined
    /\ text.tree.LightningComponentBundle.ai # Undefined
    /\ text.tree.LightningComponentBundle.ai.skipUplift \in {"true", "TRUE"}
HasFirstResult(record) == record.response # Null /\ Len(record.response.results) > 0
RecordsNamed(componentName) ==
    {r \in 1..Len(enrichmentRecords) : enrichmentRecords[r].componentName = componentName}
\* the component of the file has a record with a first result
HasResult(file) ==
    \E r \in RecordsNamed(file.componentName) : HasFirstResult(enrichmentRecords[r])
OptOutMessage == Text("skipUplift is set to true")
WrittenPaths == {writes[w].filePath : w \in 1..Len(writes)}

C9_NoResultNoWriteResponseKept ==
    [][ppc # "idle" =>
         /\ Len(enrichmentRecords') = Len(enrichmentRecords)
         /\ \A r \in 1..Len(enrichmentRecords) :
               /\ enrichmentRecords'[r].response = enrichmentRecords[r].response
               /\ enrichmentRecords'[r] =
                     [enrichmentRecords[r] EXCEPT
                         !.message = enrichmentRecords'[r].message,
                         !.status = enrichmentRecords'[r].status]
               /\ ~HasFirstResult(enrichmentRecords[r]) =>
                      enrichmentRecords'[r] = enrichmentRecords[r]
         /\ (AtFile /\ ~HasResult(CurrentFile)) =>
               /\ pendingWrite' = Null
               /\ writes' = writes
               /\ disk' = disk
               /\ enrichmentRecords' = enrichmentRecords]_vars

C9_Witness ==
    /\ PatchDone
    /\ Len(fileContents) = 2
    /\ \A i \in 1..2 :
          /\ IsConfigFile(fileContents[i].filePath)
          /\ fileContents[i].fileContents = PlainConfig
          /\ disk[fileContents[i].filePath] = OnDisk(PlainConfig, TRUE)
    /\ fileContents[1].componentName = "a"
    /\ fileContents[2].componentName = "b"
    /\ enrichmentRecords = <<PatchRecord("a", [results |-> <<>>], SUCCESS),
                             PatchRecord("b", Null, FAIL)>>
    /\ writes = <<>>

\* the file at fileIndex is one the patch is applied to ...
Patching ==
    /\ AtFile
    /\ IsConfigFile(CurrentFile.filePath)
    /\ HasResult(CurrentFile)
    /\ ~OptOut(CurrentFile.fileContents)
\* ... and parsing or serializing it fails
ParseFails == Patching /\ ~CurrentFile.fileContents.wellFormed
BuildFails ==
    Patching /\ CurrentFile.fileContents.wellFormed /\ ~CurrentFile.fileContents.buildable
\* the write in flight fails
WriteFails == ppc = "writing" /\ ~disk[pendingWrite.filePath].writable
FailingName ==
    IF ppc = "writing" THEN enrichmentRecords[pendingWrite.record].componentName
    ELSE CurrentFile.componentName
FailureText ==
    CASE ParseFails -> "parse error"
      [] BuildFails -> "build error"
      [] OTHER -> "EACCES"
\* what the call must leave at the path of the i-th file read
ExpectedOnDisk(i) ==
    LET file == fileContents[i]
        text == file.fileContents
        before == disk[file.filePath].contents = text
    IN  IF /\ IsConfigFile(file.filePath)
           /\ HasResult(file)
           /\ ~OptOut(text)
           /\ text.wellFormed /\ text.buildable
           /\ disk[file.filePath].writable
        THEN /\ file.filePath \in WrittenPaths
             /\ disk[file.filePath].contents.layout = "built"
             /\ disk[file.filePath].contents.tree.LightningComponentBundle.ai =
                    Ai("false", "D1", "0.95")
        ELSE /\ file.filePath \notin WrittenPaths
             /\ before

\* C10: a parse, serialize or write failure on one file is caught: the call
\* never rejects; the failing step stores the error text in the message of
\* that component's record and changes nothing else of the records, writes
\* nothing, and goes on with the next file; and when the call returns every
\* file read has been processed: it is written if a patch applies to it and
\* unchanged otherwise.
C10_FailureCaughtOthersProcessed ==
    /\ [][/\ ppc' # "rejected"
          /\ (ParseFails \/ BuildFails \/ WriteFails) =>
                /\ ppc' = "loop"
                /\ fileIndex' = fileIndex + 1
                /\ pendingWrite' = Null
                /\ writes' = writes
                /\ disk' = disk
                /\ \A r \in 1..Len(enrichmentRecords) :
                      IF enrichmentRecords[r].componentName = FailingName
                      THEN /\ Includes(enrichmentRecords'[r].message, FailureText)
                           /\ enrichmentRecords'[r] =
                                 [enrichmentRecords[r] EXCEPT
                                     !.message = enrichmentRecords'[r].message]
                      ELSE enrichmentRecords'[r] = enrichmentRecords[r]]_vars
    /\ [](PatchDone =>
            /\ fileIndex = Len(fileContents) + 1
            /\ \A i \in 1..Len(fileContents) : ExpectedOnDisk(i))

C10_Witness ==
    /\ PatchDone
    /\ Len(fileContents) = 2
    /\ fileContents[1].fileContents = MalformedConfig
    /\ fileContents[1].componentName = "a"
    /\ fileContents[2].fileContents = PlainConfig
    /\ fileContents[2].componentName = "b"
    /\ Len(enrichmentRecords) = 2
    /\ Includes(enrichmentRecords[1].message, "parse error")
    /\ enrichmentRecords[2].message = Null
    /\ WrittenPaths = {fileContents[2].filePath}

\* the metadata type the lookup table gives for a native type name
MappedMetadataType(typeName) ==
    IF typeName \in DOMAIN MAP_SOURCE_COMPONENT_TYPE_TO_METADATA_TYPE
    THEN MAP_SOURCE_COMPONENT_TYPE_TO_METADATA_TYPE[typeName]
    ELSE METADATA_TYPE_GENERIC

\* C13: the body of every requestPost call made for an eligible component
\* that has files carries exactly one content bundle, the metadataType the
\* lookup table gives for the component's type ('Lwc' for
\* LightningComponentBundle) and maxTokens 50.
C13_RequestBodyMapped ==
    \A k \in 1..Len(posts) :
        LET c == sourceComponents[posts[k].origin]
        IN  (Eligible(c) /\ FilesRead(c) > 0) =>
                /\ Len(posts[k].body.contentBundles) = 1
                /\ posts[k].body.metadataType = MappedMetadataType(c.type.name)
                /\ posts[k].body.maxTokens = 50

\* C14: every requestPost call goes to the enrichment endpoint with options
\* whose headers set X-Chatter-Entity-Encoding to 'false'.
C14_EndpointAndHeader ==
    \A k \in 1..Len(posts) :
        /\ posts[k].url = API_ENDPOINT_ENRICHMENT
        /\ posts[k].options # Undefined
        /\ posts[k].options.headers[ENRICHMENT_REQUEST_ENTITY_ENCODING_HEADER] = "false"

(***************************************************************************)
(* Properties of EnrichmentMetrics (specification SpecMetrics).            *)
(***************************************************************************)
BucketsOf(m) == <<m.success, m.fail, m.skipped>>

\* C11: once the metrics object exists, after createEnrichmentMetrics and
\* after any add*Component calls, the three counts add up to total and each
\* count is the length of its components list.
C11_MetricsTotals ==
    metricsMade =>
        /\ metrics.success.count + metrics.fail.count + metrics.skipped.count
               = metrics.total
        /\ \A i \in 1..3 :
               BucketsOf(metrics)[i].count = Len(BucketsOf(metrics)[i].components)

C11_Witness ==
    /\ metricsMade
    /\ Len(metricsInput) > 0
    /\ addCalls > 0
    /\ metrics.total = 2
    /\ metrics.skipped.count = 1
    /\ metrics.success.count + metrics.fail.count = 1

\* the records of the input that are counted: those with a type name
Counted(record) ==
    \/ record.componentType # Null
    \/ record.response # Null /\ Len(record.response.results) > 0
\* the names of the counted input records whose status is in statuses, in
\* input order
CountedNames(statuses) ==
    LET Test(record) == Counted(record) /\ record.status \in statuses
        selected == SelectSeq(metricsInput, Test)
    IN  [i \in 1..Len(selected) |-> selected[i].componentName]
BucketNames(bucket) ==
    [i \in 1..Len(bucket.components) |-> bucket.components[i].componentName]

\* C12: right after createEnrichmentMetrics the success bucket holds the
\* counted records of status SUCCESS, the skipped bucket those of status
\* SKIPPED (with or without a response) and the fail bucket those of status
\* FAIL or NOT_PROCESSED, so that each counted record is in exactly one
\* bucket.
C12_BucketsByStatus ==
    (metricsMade /\ addCalls = 0) =>
        /\ BucketNames(metrics.success) = CountedNames({SUCCESS})
        /\ BucketNames(metrics.skipped) = CountedNames({SKIPPED})
        /\ BucketNames(metrics.fail) = CountedNames({FAIL, NOT_PROCESSED})
        /\ \A k \in 1..Len(metricsInput) :
               Counted(metricsInput[k]) =>
                   Cardinality({<<b, i>> \in (1..3) \X (1..Len(metricsInput)) :
                       /\ i <= Len(BucketsOf(metrics)[b].components)
                       /\ BucketsOf(metrics)[b].components[i].componentName
                              = metricsInput[k].componentName}) = 1

C12_Witness ==
    /\ metricsMade
    /\ addCalls = 0
    /\ Len(metricsInput) = 2
    /\ metricsInput[1].status = SKIPPED /\ metricsInput[1].response # Null
    /\ Counted(metricsInput[1])
    /\ metricsInput[2].status = NOT_PROCESSED /\ Counted(metricsInput[2])
    /\ BucketNames(metrics.skipped) = <<"r1">>
    /\ BucketNames(metrics.fail) = <<"r2">>
    /\ BucketNames(metrics.success) = <<>>

(***************************************************************************)
(* Properties of EnrichmentRecords (specification SpecRecords).  They are  *)
(* stated on the state right after a call: lastCall holds the method, its  *)
(* arguments and the recordSet before the call.                            *)
(***************************************************************************)
JustCalled(method) == storeMade /\ lastCall.method = method
NamesIn(records) == {records[i].componentName : i \in 1..Len(records)}
\* the positions of the incoming records of that name
Matching(results, componentName) ==
    {j \in 1..Len(results) : results[j].componentName = componentName}
\* the incoming record that counts for a name: the last one of that name
Incoming(results, componentName) ==
    results[CHOOSE j \in Matching(results, componentName) :
                \A j2 \in Matching(results, componentName) : j2 <= j]

\* C15: after updateWithResults, every store record whose componentName
\* matches an incoming record (the last one of that name) has the incoming
\* requestBody, response and message, and its status is SKIPPED if it was
\* SKIPPED, else SUCCESS if the incoming response is non-null, else FAIL.
C15_MergeResults ==
    JustCalled("updateWithResults") =>
        LET results == lastCall.args[1]
            before == lastCall.before
        IN  /\ Len(recordSet) = Len(before)
            /\ \A i \in 1..Len(before) :
                   Matching(results, before[i].componentName) # {} =>
                       LET incoming == Incoming(results, before[i].componentName)
                       IN  /\ recordSet[i].requestBody = incoming.requestBody
                           /\ recordSet[i].response = incoming.response
                           /\ recordSet[i].message = incoming.message
                           /\ recordSet[i].status =
                                  IF before[i].status = SKIPPED THEN SKIPPED
                                  ELSE IF incoming.response # Null THEN SUCCESS
                                  ELSE FAIL

C15_Witness ==
    /\ JustCalled("updateWithResults")
    /\ \E i, j \in 1..Len(recordSet) :
          /\ lastCall.before[i].status = SKIPPED
          /\ lastCall.before[i].response = Null
          /\ recordSet[i].status = SKIPPED
          /\ recordSet[i].response # Null
          /\ lastCall.before[j].status = NOT_PROCESSED
          /\ recordSet[j].status = SUCCESS
          /\ recordSet[j].requestBody = SentBody

\* the names addSkippedComponents is to add: the non-empty names of the
\* given components that no record has
NamesToAdd(before, componentsToSkip) ==
    {n \in {componentsToSkip[i].componentName : i \in 1..Len(componentsToSkip)} :
        n # NoName /\ n # "" /\ n \notin NamesIn(before)}

\* C16: after addSkippedComponents the records that existed are unchanged
\* and in place, exactly one record was added for each named component
\* whose name no record had, each added record is SKIPPED with null response
\* and null message, and a second call with the same components changes
\* nothing.
C16_MarkSkipped ==
    JustCalled("addSkippedComponents") =>
        LET componentsToSkip == lastCall.args[1]
            before == lastCall.before
            toAdd == NamesToAdd(before, componentsToSkip)
        IN  /\ Len(recordSet) = Len(before) + Cardinality(toAdd)
            /\ \A i \in 1..Len(before) : recordSet[i] = before[i]
            /\ \A n \in toAdd :
                   Cardinality({i \in 1..Len(recordSet) :
                                   recordSet[i].componentName = n}) = 1
            /\ \A i \in (Len(before) + 1)..Len(recordSet) :
                   /\ recordSet[i].componentName \in toAdd
                   /\ recordSet[i].status = SKIPPED
                   /\ recordSet[i].response = Null
                   /\ recordSet[i].message = Null
            /\ addSkippedComponents(recordSet, componentsToSkip) = recordSet

C16_Witness ==
    /\ JustCalled("addSkippedComponents")
    /\ Len(lastCall.args[1]) = 2
    /\ Len(recordSet) = Len(lastCall.before) + 1
    /\ \E i \in 1..Len(lastCall.before) :
          /\ lastCall.before[i].componentName = lastCall.args[1][1].componentName
          /\ lastCall.before[i].status = SUCCESS
    /\ recordSet[Len(recordSet)].componentName = lastCall.args[1][2].componentName

\* a component has a name when its fullName or its name is a non-empty string
HasName(component) ==
    \E n \in {component.fullName, component.name} : n # NoName /\ n # ""
HasType(component) == component.type # Undefined
ResolvedName(component) ==
    IF component.fullName # NoName THEN component.fullName ELSE component.name

\* C17: the constructor creates, in input order, exactly one record for
\* every component that has a name and a type, with that name and type,
\* status NOT_PROCESSED, the default request body, null response and null
\* message, and no record for any other component.
C17_Initialize ==
    JustCalled("constructor") =>
        LET Qualifies(component) == HasName(component) /\ HasType(component)
            qualifying == SelectSeq(lastCall.args[1], Qualifies)
        IN  /\ Len(recordSet) = Len(qualifying)
            /\ \A i \in 1..Len(qualifying) :
                   /\ recordSet[i].componentName = ResolvedName(qualifying[i])
                   /\ recordSet[i].componentType = qualifying[i].type
                   /\ recordSet[i].status = NOT_PROCESSED
                   /\ recordSet[i].requestBody =
                          [contentBundles |-> <<>>, metadataType |-> "Generic",
                           maxTokens |-> 50]
                   /\ recordSet[i].response = Null
                   /\ recordSet[i].message = Null

C17_Witness ==
    /\ JustCalled("constructor")
    /\ Len(lastCall.args[1]) = 2
    /\ HasName(lastCall.args[1][1]) /\ ~HasType(lastCall.args[1][1])
    /\ HasName(lastCall.args[1][2]) /\ HasType(lastCall.args[1][2])
    /\ Len(recordSet) = 1
    /\ recordSet[1].status = NOT_PROCESSED

(***************************************************************************)
(* Properties of the static functions (specification SpecCalls).           *)
(***************************************************************************)
JustReturned(fn) == called.fn = fn /\ returned # Pending

\* the children of the LightningComponentBundle element other than ai, as
\* the parser reads them: Undefined when there is none
OtherChildren(xmlContent) ==
    LET lcb == xmlContent.tree.LightningComponentBundle
    IN  IF lcb = Undefined THEN JsUndefined
        ELSE IF isTextOnly(lcb)
        THEN IF lcb.text = "" THEN JsUndefined ELSE parseTagValue(lcb.text)
        ELSE parseTagValue(lcb.rest)
\* a score, given in hundredths, as JavaScript prints it
ScoreText(score) == IF score = 95 THEN "0.95" ELSE "0.9"
\* the returned markup holds a LightningComponentBundle element whose ai is
\* exactly the fixed sub-structure for result, and the rest of the tree of
\* xmlContent
PatchedFrom(markup, xmlContent, result) ==
    /\ markup.wellFormed
    /\ markup.tree.LightningComponentBundle # Undefined
    /\ ~isTextOnly(markup.tree.LightningComponentBundle)
    /\ markup.tree.LightningComponentBundle.ai =
           [skipUplift |-> "false", description |-> result.description,
            score |-> ScoreText(result.descriptionScore)]
    /\ markup.tree.others = xmlContent.tree.others
    /\ OtherChildren(markup) = OtherChildren(xmlContent)

NoBareText(xmlContent) ==
    isTextOnly(xmlContent.tree.LightningComponentBundle) =>
        xmlContent.tree.LightningComponentBundle.text = ""

C19_FileReadingNeverFails ==
    /\ JustReturned("readComponentFile") =>
           LET componentName == called.args[1]
               file == called.args[2]
           IN  /\ returned.state = "fulfilled"
               /\ ~file.readable => returned.value = Null
               /\ file.readable =>
                      /\ returned.value # Null
                      /\ returned.value.componentName = componentName
                      /\ returned.value.filePath = file.filePath
                      /\ returned.value.fileContents = file.fileContents
    /\ JustReturned("readComponentFiles") =>
           LET component == called.args[1]
               Readable(file) == file.readable
               expected == SelectSeq(component.content, Readable)
           IN  /\ returned.state = "fulfilled"
               /\ IF ~HasName(component) THEN returned.value = <<>>
                  ELSE /\ Len(returned.value) = Len(expected)
                       /\ \A i \in 1..Len(expected) :
                              /\ returned.value[i].componentName = ResolvedName(component)
                              /\ returned.value[i].filePath = expected[i].filePath
                              /\ returned.value[i].fileContents = expected[i].fileContents

C19_Witness ==
    /\ JustReturned("readComponentFiles")
    /\ HasName(called.args[1])
    /\ Len(called.args[1].content) = 2
    /\ ~called.args[1].content[1].readable
    /\ called.args[1].content[2].readable
    /\ settled = <<2, 1>>
    /\ Len(returned.value) = 1
    /\ returned.value[1].filePath = called.args[1].content[2].filePath

\* the final extension of a base name: the part after its last dot, none
\* (NoName) when it has no dot or its only dot is the leading one
FinalExtension(base) ==
    IF Len(base) = 1 \/ (Len(base) = 2 /\ base[1] = "") THEN NoName
    ELSE base[Len(base)]
ExpectedMimeType(extension) ==
    CASE extension \in {"js", "JS", "Js"} -> "application/javascript"
      [] extension \in {"html", "HTML"} -> "text/html"
      [] extension \in {"css", "CSS"} -> "text/css"
      [] extension \in {"xml", "XML"} -> "application/xml"
      [] extension \in {"svg", "SVG"} -> "image/svg+xml"
      [] OTHER -> "application/octet-stream"

\* C20: getMimeTypeFromExtension returns the table entry of the final
\* extension of the base name, whatever its case and whatever the
\* directory, and application/octet-stream for any other or missing
\* extension.
C20_MimeByFinalExtension ==
    JustReturned("getMimeTypeFromExtension") =>
        returned.value = ExpectedMimeType(FinalExtension(called.args[1].base))

C20_Witness ==
    /\ JustReturned("getMimeTypeFromExtension")
    /\ called.args[1] = Path(<<"d", "js">>, <<"c", "js", "HTML">>)
    /\ returned.value = "text/html"

(***************************************************************************)
(* Further properties of EnrichmentHandler.enrich (specification Spec).    *)
(***************************************************************************)
\* C21: for a named eligible component whose file read returned zero files
\* (whose request body is null), enrich returns exactly one record and the
\* status of that record is FAIL.
C21_NoFilesEndsFail ==
    EnrichDone =>
        \A c \in InputComponents :
            (Named(c) /\ Eligible(c) /\ FilesRead(c) = 0) =>
                /\ Cardinality(ReturnedFor(c.id)) = 1
                /\ \A i \in ReturnedFor(c.id) :
                      /\ enrichResult[i].requestBody = Null
                      /\ enrichResult[i].status = FAIL

\* a record has been built for the component: its file read is over
BuiltFor(component) == \E r \in CreatedRecords : r.origin = component.id

\* C24: while any requestPost call has been made, the record of every named
\* input component, eligible or not, has been built (its file read is over);
\* and when enrich has returned, every requestPost call made has settled.
C24_PhasesSequential ==
    /\ posts # <<>> => \A c \in InputComponents : Named(c) => BuiltFor(c)
    /\ EnrichDone =>
          /\ Len(answers) = Len(posts)
          /\ \A k \in 1..Len(posts) : answers[k] # Pending

C24_Witness ==
    /\ pc = "requests"
    /\ Len(sourceComponents) = 2
    /\ Eligible(sourceComponents[1]) /\ FilesRead(sourceComponents[1]) > 0
    /\ ~Eligible(sourceComponents[2]) /\ Named(sourceComponents[2])
    /\ FilesRead(sourceComponents[2]) > 0
    /\ Len(posts) = 1
    /\ answers[1] = Pending
    /\ Len(nonLwcRecords) = 1

\* the records sent that have a request body
SentWithBody == {k \in 1..Len(lwcRecords) : lwcRecords[k].requestBody # Null}

\* a step after the requests are sent makes no requestPost call and leaves
\* every settled request as it settled
NothingSentAgain ==
    pc \in {"requests", "done"} =>
        /\ posts' = posts
        /\ \A k \in 1..Len(requestPromises) :
              requestPromises[k] # Pending =>
                  /\ requestPromises'[k] = requestPromises[k]
                  /\ answers'[k] = answers[k]

\* C26: once the requests are sent, exactly one requestPost call has been
\* made for every record with a request body, and no step makes another
\* call; a request that has settled stays as it settled, and the record
\* returned has the response and status of that one settlement.
C26_NoRetries ==
    /\ [](pc \in {"requests", "done"} =>
            \A k \in SentWithBody : Cardinality(PostsFor(lwcRecords[k].origin)) = 1)
    /\ [][NothingSentAgain]_vars
    /\ [](EnrichDone =>
            \A k \in SentWithBody :
                IF answers[k].state = "fulfilled"
                THEN /\ enrichResult[k].status = SUCCESS
                     /\ enrichResult[k].response = answers[k].value
                ELSE /\ enrichResult[k].status = FAIL
                     /\ enrichResult[k].response = Null)

C26_Witness ==
    /\ EnrichDone
    /\ Len(posts) = 2
    /\ SentWithBody = {1, 2}
    /\ answers[1].state = "rejected"
    /\ answers[2].state = "fulfilled"
    /\ enrichResult[1].status = FAIL
    /\ enrichResult[2].status = SUCCESS

\* C27: every record returned for a named ineligible component has the
\* fixed 'only LightningComponentBundle is eligible' message, whether its
\* file read returned no file or some.
C27_IneligibleFixedMessage ==
    EnrichDone =>
        \A c \in InputComponents :
            (Named(c) /\ ~Eligible(c)) =>
                \A i \in ReturnedFor(c.id) :
                    enrichResult[i].message = getMessage("error.enrich.lwc.only", <<>>)

(***************************************************************************)
(* Further properties of the EnrichmentRecords store (specification        *)
(* SpecRecords).                                                           *)
(***************************************************************************)
\* C22: a call of addSkippedComponents, updateWithResults or
\* generateSkipReasons leaves every record that is SKIPPED before the call
\* in place and SKIPPED after it; so without updateWithStatus a record that
\* is SKIPPED at some point is SKIPPED at every later point.
C22_SkippedIsTerminal ==
    [][(storeMade /\ lastCall'.method # "updateWithStatus") =>
          \A i \in 1..Len(recordSet) :
              recordSet[i].status = SKIPPED =>
                  /\ i <= Len(recordSet')
                  /\ recordSet'[i].componentName = recordSet[i].componentName
                  /\ recordSet'[i].status = SKIPPED]_vars

C22_Witness ==
    /\ JustCalled("updateWithResults")
    /\ \E i \in 1..Len(recordSet) :
          /\ lastCall.before[i].componentName = "c"
          /\ lastCall.before[i].status = SKIPPED
          /\ lastCall.before[i].message = Null
          /\ recordSet[i].status = SKIPPED
          /\ recordSet[i].message = Text("API request failed")

\* the names given in a set of components
NamesGiven(components) ==
    {n \in {components[i].componentName : i \in 1..Len(components)} :
        n # NoName /\ n # ""}
\* the first record of that name: the one the store finds
FirstNamed(records, i) ==
    \A j \in 1..(i - 1) : records[j].componentName # records[i].componentName
\* the record is SKIPPED and has no message
LacksReason(record) ==
    record.status = SKIPPED /\ (record.message = Null \/ record.message = Text(""))
\* the positions of the source components of that name
SourcesNamed(projectSourceComponents, componentName) ==
    {i \in 1..Len(projectSourceComponents) :
        HasName(projectSourceComponents[i])
        /\ ResolvedName(projectSourceComponents[i]) = componentName}
\* the source component of that name: the last one in the list
SourceNamed(projectSourceComponents, componentName) ==
    projectSourceComponents[
        CHOOSE i \in SourcesNamed(projectSourceComponents, componentName) :
            \A j \in SourcesNamed(projectSourceComponents, componentName) : j <= i]
\* the message by the first matching check, in the fixed order
ReasonInOrder(projectSourceComponents, componentName) ==
    IF SourcesNamed(projectSourceComponents, componentName) = {}
    THEN getMessage("errors.component.not.found", <<>>)
    ELSE LET source == SourceNamed(projectSourceComponents, componentName)
         IN  IF ~(HasType(source) /\ source.type.name = "LightningComponentBundle")
             THEN getMessage("errors.lwc.only", <<>>)
             ELSE IF source.xml = Undefined
             THEN getMessage("errors.lwc.configuration.not.found", <<>>)
             ELSE getMessage("errors.unknown", <<>>)

\* C28: after generateSkipReasons, every record that was given a message
\* (the first record of a name in componentsToSkip that was SKIPPED without
\* a message) has the message of the first matching check in the order:
\* component not found, only LWC is eligible, configuration file missing,
\* unknown.
C28_SkipReasonOrder ==
    JustCalled("generateSkipReasons") =>
        \A i \in 1..Len(recordSet) :
            LET before == lastCall.before[i]
                reason == ReasonInOrder(lastCall.args[2], before.componentName)
            IN  /\ (/\ before.componentName \in NamesGiven(lastCall.args[1])
                     /\ FirstNamed(lastCall.before, i)
                     /\ LacksReason(before)) => recordSet[i].message = reason
                /\ recordSet[i].message # before.message =>
                       recordSet[i].message = reason

C28_Witness ==
    /\ JustCalled("generateSkipReasons")
    /\ Len(lastCall.args[2]) = 2
    /\ Len(recordSet) = 2
    /\ recordSet[1].componentName = "a"
    /\ recordSet[2].componentName = "c"
    /\ LacksReason(lastCall.before[1]) /\ LacksReason(lastCall.before[2])
    /\ recordSet[1].message = getMessage("errors.lwc.configuration.not.found", <<>>)
    /\ recordSet[2].message = getMessage("errors.component.not.found", <<>>)

C30_ApplyStatusFrame ==
    JustCalled("updateWithStatus") =>
        /\ Len(recordSet) = Len(lastCall.before)
        /\ \A i \in 1..Len(recordSet) :
              recordSet[i] =
                  [lastCall.before[i] EXCEPT !.status =
                      IF lastCall.before[i].componentName \in NamesGiven(lastCall.args[1])
                      THEN lastCall.args[2]
                      ELSE lastCall.before[i].status]

C30_Witness ==
    /\ JustCalled("updateWithStatus")
    /\ Len(recordSet) = 2
    /\ lastCall.args[1] = <<TypeAndName("c")>>
    /\ lastCall.args[2] = SUCCESS
    /\ lastCall.before[2].status = SKIPPED
    /\ recordSet[2].status = SUCCESS
    /\ recordSet[1] = lastCall.before[1]
    /\ recordSet[1].status = NOT_PROCESSED

(***************************************************************************)
(* Further properties of LwcProcessor.updateMetadataFiles (specification   *)
(* SpecPatch).                                                             *)
(***************************************************************************)
\* C23: a step of the patch phase changes the status of a record only to
\* SKIPPED, and only when the record has a non-null response and the file
\* being processed is the configuration file of the record's component with
\* the opt-out flag true; every other step, a parse, serialize or write
\* failure included, leaves every status as it was.
C23_OnlyOptOutChangesStatus ==
    [][ppc # "idle" =>
         /\ Len(enrichmentRecords') = Len(enrichmentRecords)
         /\ \A r \in 1..Len(enrichmentRecords) :
               enrichmentRecords'[r].status # enrichmentRecords[r].status =>
                   /\ enrichmentRecords'[r].status = SKIPPED
                   /\ enrichmentRecords[r].response # Null
                   /\ AtFile
                   /\ CurrentFile.componentName = enrichmentRecords[r].componentName
                   /\ IsConfigFile(CurrentFile.filePath)
                   /\ OptOut(CurrentFile.fileContents)
         /\ (ParseFails \/ BuildFails \/ WriteFails) =>
               \A r \in 1..Len(enrichmentRecords) :
                   enrichmentRecords'[r].status = enrichmentRecords[r].status]_vars

C23_Witness ==
    /\ PatchDone
    /\ Len(fileContents) = 2
    /\ fileContents[1].fileContents = OptOutConfig("true")
    /\ fileContents[2].fileContents = PlainConfig
    /\ disk[fileContents[2].filePath] = OnDisk(PlainConfig, FALSE)
    /\ Len(enrichmentRecords) = 2
    /\ enrichmentRecords[1].status = SKIPPED
    /\ enrichmentRecords[1].response # Null
    /\ enrichmentRecords[2].status = SUCCESS
    /\ Includes(enrichmentRecords[2].message, "EACCES")

\* the writeFile calls that have not settled
InFlight == {k \in 1..Len(writeCalls) : ~writeCalls[k].settled}

\* C25: at most one writeFile call is in flight; while it is, the loop
\* stays at its file, so that every file before it in the read order has
\* been dealt with and no later one has been started; the calls are made in
\* the read order, each for a configuration file, and at most one for each
\* configuration file read (one per component listed).
C25_WritesSerialized ==
    /\ Cardinality(InFlight) <= 1
    /\ \A k \in InFlight :
          /\ k = Len(writeCalls)
          /\ ppc = "writing"
          /\ fileIndex = writeCalls[k].file
    /\ \A k \in 1..Len(writeCalls) :
          /\ writeCalls[k].file <= fileIndex
          /\ writeCalls[k].filePath = fileContents[writeCalls[k].file].filePath
          /\ IsConfigFile(writeCalls[k].filePath)
    /\ \A j, k \in 1..Len(writeCalls) :
          j < k => writeCalls[j].file < writeCalls[k].file

C25_Witness ==
    /\ ppc = "writing"
    /\ Len(writeCalls) = 2
    /\ writeCalls[1].settled
    /\ ~writeCalls[2].settled
    /\ writeCalls[1].file = 1
    /\ writeCalls[2].file = 2
    /\ writes = <<>>

(***************************************************************************)
(* Properties of the list EnrichmentHandler.enrich returns                 *)
(* (specifications Spec and SpecFair).                                     *)
(***************************************************************************)
RECURSIVE BuiltInOrder(_, _, _, _)
\* the records of the first n of components, one per component with a name,
\* in the order of the components
BuiltInOrder(components, status, message, n) ==
    IF n = 0 THEN <<>>
    ELSE LET before == BuiltInOrder(components, status, message, n - 1)
         IN  IF truthyName(componentNameOf(components[n]))
             THEN Append(before,
                         createEnrichmentRequestRecord(components[n], status, message))
             ELSE before

LwcSettleOrder == indexesOf(SelectSeq(settleOrder, inLwcRecords))
RequestSettleOrder == indexesOf(SelectSeq(settleOrder, inRequests))

\* C31: the record lists built are a function of the input components and
\* their file-read results alone: whatever the order in which the file reads
\* of the components completed, each list has one record per named
\* component, in the order of the components, with the name, request body,
\* status and message that the component and its files determine.
C31_ClassificationDeterministic ==
    /\ pc \in {"nonLwcRecords", "requests", "done"} =>
          lwcRecords = BuiltInOrder(lwcComponents, NoStatus, Undefined, Len(lwcComponents))
    /\ pc \in {"requests", "done"} =>
          nonLwcRecords =
              BuiltInOrder(nonLwcComponents, SKIPPED,
                           getMessage("error.enrich.lwc.only", <<>>), Len(nonLwcComponents))

C31_Witness ==
    /\ pc = "nonLwcRecords"
    /\ LwcSettleOrder = <<2, 1>>
    /\ Len(lwcRecords) = 2
    /\ lwcRecords[1].origin = 1
    /\ lwcRecords[1].componentName # lwcRecords[2].componentName
    /\ lwcRecords[1].requestBody # Null
    /\ lwcRecords[2].requestBody = Null

\* C36: in the list enrich returns, for any order in which the requestPost
\* calls settled, the i-th record has the componentName and request body of
\* the i-th record sent and the outcome of the i-th call: SUCCESS with the
\* response of that call when it resolved, FAIL with a null response and
\* the failure message of that record when it rejected.
C36_ReconciledByPosition ==
    EnrichDone =>
        \A i \in 1..Len(posts) :
            /\ posts[i].origin = lwcRecords[i].origin
            /\ enrichResult[i].origin = lwcRecords[i].origin
            /\ enrichResult[i].componentName = lwcRecords[i].componentName
            /\ enrichResult[i].requestBody = lwcRecords[i].requestBody
            /\ IF answers[i].state = "fulfilled"
               THEN /\ enrichResult[i].status = SUCCESS
                    /\ enrichResult[i].response = answers[i].value
                    /\ enrichResult[i].response.call = i
               ELSE /\ enrichResult[i].status = FAIL
                    /\ enrichResult[i].response = Null
                    /\ enrichResult[i].message =
                           getMessage("error.enrichment.request",
                                      <<lwcRecords[i].componentName>>)

C36_Witness ==
    /\ EnrichDone
    /\ Len(posts) = 2
    /\ RequestSettleOrder = <<2, 1>>
    /\ lwcRecords[1].componentName # lwcRecords[2].componentName
    /\ answers[1].state = "rejected"
    /\ answers[2].state = "fulfilled"
    /\ enrichResult[1].status = FAIL
    /\ enrichResult[2].status = SUCCESS

NamedComponents == {c \in InputComponents : Named(c)}
TypeOrNull(component) == IF component.type = Undefined THEN Null ELSE component.type

\* C37: enrich returns as many records as there are named input components,
\* exactly one for each, with the componentName and componentType of its
\* component, whatever the outcomes of the requestPost calls.
C37_OneRecordPerNamedComponent ==
    EnrichDone =>
        /\ Len(enrichResult) = Cardinality(NamedComponents)
        /\ \A i \in 1..Len(enrichResult) :
              enrichResult[i].origin \in {c.id : c \in NamedComponents}
        /\ \A c \in NamedComponents :
              /\ Cardinality(ReturnedFor(c.id)) = 1
              /\ \A i \in ReturnedFor(c.id) :
                    /\ enrichResult[i].componentName = componentNameOf(c)
                    /\ enrichResult[i].componentType = TypeOrNull(c)

C37_Witness ==
    /\ EnrichDone
    /\ Len(sourceComponents) = 2
    /\ Cardinality(NamedComponents) = 2
    /\ \E c \in NamedComponents : Eligible(c) /\ FilesRead(c) = 0
    /\ \E c \in NamedComponents : ~Eligible(c) /\ c.type = Undefined
    /\ Len(posts) = 1
    /\ answers[1].state = "rejected"
    /\ Len(enrichResult) = 2

\* C35: in the list enrich returns a record is SUCCESS exactly when its
\* response is not null; a FAIL or SKIPPED record has a null response and a
\* SUCCESS record has the response its own requestPost call resolved with.
C35_SuccessIffResponse ==
    EnrichDone =>
        \A i \in 1..Len(enrichResult) :
            /\ enrichResult[i].status = SUCCESS <=> enrichResult[i].response # Null
            /\ enrichResult[i].status \in {FAIL, SKIPPED} =>
                  enrichResult[i].response = Null
            /\ enrichResult[i].status = SUCCESS =>
                  \E k \in PostsFor(enrichResult[i].origin) :
                      /\ answers[k].state = "fulfilled"
                      /\ enrichResult[i].response = answers[k].value

C35_Witness ==
    /\ EnrichDone
    /\ Len(enrichResult) = 2
    /\ enrichResult[1].status = SUCCESS
    /\ enrichResult[1].response # Null
    /\ enrichResult[2].status = SKIPPED
    /\ enrichResult[2].response = Null
    /\ enrichResult[2].requestBody # Null

Started == pc # "idle"
FinalStatuses == {SUCCESS, FAIL, SKIPPED}

\* C34: when every file read and every requestPost call settles, a call of
\* enrich eventually resolves with a list, whatever the outcomes of the
\* requestPost calls, and no record of the list is left NOT_PROCESSED.
C34_EnrichCompletes ==
    /\ Started ~> EnrichDone
    /\ [](EnrichDone =>
            \A i \in 1..Len(enrichResult) : enrichResult[i].status \in FinalStatuses)

C34_Witness ==
    /\ EnrichDone
    /\ Len(posts) = 2
    /\ answers[1].state = "fulfilled"
    /\ answers[2].state = "rejected"
    /\ lwcRecords[1].status = NOT_PROCESSED
    /\ lwcRecords[2].status = NOT_PROCESSED
    /\ enrichResult[1].status = SUCCESS
    /\ enrichResult[2].status = FAIL

(***************************************************************************)
(* Properties of EnrichmentHandler.createContentBundle (specification      *)
(* SpecCalls).                                                             *)
(***************************************************************************)
BaseNames(files) == {basename(files[i].filePath) : i \in 1..Len(files)}
\* the position of the last of files with base name name
LastNamed(files, name) ==
    CHOOSE i \in 1..Len(files) :
        /\ basename(files[i].filePath) = name
        /\ \A j \in 1..Len(files) : basename(files[j].filePath) = name => j <= i

\* C33: the content bundle built from the read files has exactly one entry
\* per distinct base filename among them, keyed by that name, and the entry
\* is made of the last file of that name in read order.
C33_OneEntryPerBaseName ==
    JustReturned("createContentBundle") =>
        LET files == called.args[2]
            bundle == returned.value
        IN  /\ bundle.resourceName = called.args[1]
            /\ DOMAIN bundle.files = BaseNames(files)
            /\ Cardinality(DOMAIN bundle.files) = Cardinality(BaseNames(files))
            /\ \A name \in BaseNames(files) :
                  LET last == files[LastNamed(files, name)]
                  IN  /\ bundle.files[name].filename = name
                      /\ bundle.files[name].content = last.fileContents
                      /\ bundle.files[name].mimeType = last.mimeType

(***************************************************************************)
(* Properties of a second call of LwcProcessor.updateMetadataFiles         *)
(* (specification SpecRerun).                                              *)
(***************************************************************************)
SecondRunDone == ppc = "done" /\ firstRun # Null
Statuses(records) == [i \in 1..Len(records) |-> records[i].status]

C38_MergeResultsFrame ==
    JustCalled("updateWithResults") =>
        LET results == lastCall.args[1]
            before == lastCall.before
        IN  /\ Len(recordSet) = Len(before)
            /\ NamesIn(recordSet) = NamesIn(before)
            /\ \A i \in 1..Len(before) :
                  /\ recordSet[i].componentName = before[i].componentName
                  /\ recordSet[i].componentType = before[i].componentType
                  /\ Matching(results, before[i].componentName) = {} =>
                        recordSet[i] = before[i]

C38_Witness ==
    /\ JustCalled("updateWithResults")
    /\ Len(recordSet) = 2
    /\ \E j \in 1..Len(lastCall.args[1]) :
          lastCall.args[1][j].componentName \notin NamesIn(lastCall.before)
    /\ \E i \in 1..Len(recordSet) :
          /\ Matching(lastCall.args[1], recordSet[i].componentName) # {}
          /\ recordSet[i] # lastCall.before[i]
          /\ recordSet[i].componentType #
                 Incoming(lastCall.args[1], recordSet[i].componentName).componentType
    /\ \E i \in 1..Len(recordSet) :
          Matching(lastCall.args[1], recordSet[i].componentName) = {}

(***************************************************************************)
(* The records EnrichmentMetrics.createEnrichmentMetrics counts            *)
(* (specification SpecMetrics).                                            *)
(***************************************************************************)
CountedRecords == {k \in 1..Len(metricsInput) : Counted(metricsInput[k])}
\* the entries of the three buckets
Entries(m) == Range(m.success.components) \cup Range(m.fail.components)
                  \cup Range(m.skipped.components)
\* the type name the claim gives a counted record
ClaimedTypeName(record) ==
    IF record.componentType # Null THEN record.componentType.name
    ELSE record.response.results[1].metadataType

\* C39: right after createEnrichmentMetrics, total is the number of input
\* records that have a componentType or a first result in their response:
\* at most the number of input records, and equal to it exactly when every
\* record is such; a record with neither is in no bucket, and the entry of a
\* counted record has the name of its componentType or, when the
\* componentType is absent, the metadataType of the first result.
C39_UntypedRecordsOmitted ==
    (metricsMade /\ addCalls = 0) =>
        /\ metrics.total = Cardinality(CountedRecords)
        /\ metrics.total <= Len(metricsInput)
        /\ metrics.total = Len(metricsInput) <=>
               \A k \in 1..Len(metricsInput) : Counted(metricsInput[k])
        /\ \A k \in 1..Len(metricsInput) :
              LET mine == {e \in Entries(metrics) :
                              e.componentName = metricsInput[k].componentName}
              IN  IF Counted(metricsInput[k])
                  THEN /\ mine # {}
                       /\ \A e \in mine : e.typeName = ClaimedTypeName(metricsInput[k])
                  ELSE mine = {}

C39_Witness ==
    /\ metricsMade
    /\ addCalls = 0
    /\ Len(metricsInput) = 2
    /\ metricsInput[1].componentType = Null
    /\ metricsInput[1].response # Null
    /\ Len(metricsInput[1].response.results) > 0
    /\ metricsInput[2].componentType = Null
    /\ metricsInput[2].response # Null
    /\ Len(metricsInput[2].response.results) = 0
    /\ metrics.total = 1
    /\ \E e \in Entries(metrics) :
          e.componentName = "r1" /\ e.typeName = LWC_METADATA_TYPE_NAME


====
